---- MODULE Spec2Model ----
(***************************************************************************)
(* Street-network routing engine of backend/dataProcessor.js and the       *)
(* /route handler of backend/routes.js.                                    *)
(*                                                                         *)
(* Number representation (the source works on IEEE doubles):               *)
(*   - a coordinate is <<lat, lng>>, each component an integer offset in   *)
(*     units of 1e-7 degree from (49.28, -123.12); the latitude is a       *)
(*     positive number and the longitude a negative one, as in the data;   *)
(*   - a distance weight (segment.length, neighbor.distance, a tentative   *)
(*     distance, an edge cost) is an integer number of thousandths;        *)
(*   - a scoring weight and a safety score are integers in tenths          *)
(*     (W_INFRASTRUCTURE = 2.5 is 25);                                     *)
(*   - calculateDistance yields the squared distance in square             *)
(*     millimetres (the order of two distances and the comparison with a   *)
(*     threshold are the same on the squares);                             *)
(*   - a time of day is an integer number of thousandths of an hour.       *)
(* Node ids node_0, node_1, ... are the integers 0, 1, ...                 *)
(***************************************************************************)
EXTENDS Integers, Sequences, FiniteSets, TLC

\* ------------------------------------------------------------------ bounds
\* Longest list of segments handed to buildGraph.
MaxSegs == 3

\* ------------------------------------------------------- program constants
W_INFRASTRUCTURE == 25
W_LIGHTING == 20
W_AMENITY == 15
W_CRIME == 0 - 30
W_DISRUPTION == 0 - 20
\* lightWeight = 0.1 of the day regime, in tenths
DayLightWeight == 1
\* Math.max(0.1, cost), in thousandths
MinCost == 100
\* Infinity of the tentative distances; no finite sum of the model reaches it
Infinity == 1000000000
\* null (no node, no predecessor)
NullNode == 0 - 1
\* the 0.001 km gap beyond which the final node coordinate is appended,
\* squared, in square millimetres
EndGap == 1000000
\* millimetres per 1e-7 degree of latitude, and of longitude at 49.28 N
MmPerLatUnit == 11
MmPerLngUnit == 7

\* ----------------------------------------------------------------- helpers
Max(a, b) == IF a > b THEN a ELSE b

Reverse(s) == [i \in 1..Len(s) |-> s[Len(s) + 1 - i]]

\* Number.prototype.toFixed(6) of a latitude (positive number): the nearest
\* multiple of 1e-6, the larger one on a tie; the result is the multiple.
toFixed6Lat(x) == (x + 5) \div 10

\* toFixed(6) of a longitude (negative number): the sign is set aside and
\* the magnitude is rounded as above.
toFixed6Lng(y) == 0 - (((0 - y) + 5) \div 10)

\* `${c[0].toFixed(6)},${c[1].toFixed(6)}`
canonicalKey(c) == <<toFixed6Lat(c[1]), toFixed6Lng(c[2])>>

\* Haversine distance of two coordinates, squared, in square millimetres
\* (small-angle form: the coordinates of the model lie within some 20 m).
calculateDistance(coord1, coord2) ==
    LET dLat == (coord2[1] - coord1[1]) * MmPerLatUnit
        dLng == (coord2[2] - coord1[2]) * MmPerLngUnit
    IN  dLat * dLat + dLng * dLng

\* ------------------------------------------------------------ input domain
\* Coordinates of the street network of the model.  PA2 and PC2 differ from
\* PA and PC in the raw value only: they have the same canonical key.
PA == <<0, 0>>
PA2 == <<3, -2>>
PB == <<1000, 0>>
PC == <<1000, 1000>>
PC2 == <<998, 1004>>
PD == <<0, 1500>>
PE == <<-1000, 1500>>
PM == <<400, 300>>

Scores(i, l, c, a, d) ==
    [infra |-> i, light |-> l, crime |-> c, amenity |-> a, disruption |-> d]

Segment(coords, len, sc) ==
    [coordinates |-> coords, length |-> len, start |-> coords[1],
     end |-> coords[Len(coords)], scores |-> sc]

\* The segments a loader may hand over (the first two are the example of
\* the specification: a longer safe and a shorter unsafe parallel street).
SegPool ==
    { Segment(<<PA, PM, PB>>, 120, Scores(9, 9, 1, 8, 0)),
      Segment(<<PA, PB>>, 100, Scores(4, 3, 8, 4, 0)),
      Segment(<<PB, PC>>, 100, Scores(4, 5, 3, 4, 0)),
      Segment(<<PA2, PM, PC>>, 250, Scores(6, 5, 3, 4, 0)),
      Segment(<<PE, PD>>, 100, Scores(4, 5, 3, 4, 0)),
      Segment(<<PC, PM, PC2>>, 300, Scores(4, 5, 3, 4, 1)) }

RECURSIVE SeqsUpTo(_, _)
SeqsUpTo(S, n) ==
    IF n = 0 THEN {<<>>}
    ELSE LET shorter == SeqsUpTo(S, n - 1)
         IN  shorter \cup {Append(s, x) : s \in {t \in shorter : Len(t) = n - 1}, x \in S}

SegLists == SeqsUpTo(SegPool, MaxSegs)

\* ---------------------------------------------------------------- buildGraph
\* One edge of a neighbor list; segment is the index of the segment object
\* in the list given to buildGraph (the object reference of the source).
Edge(n, s, d) == [node |-> n, segment |-> s, distance |-> d]

EmptyGraph == [i \in {} |-> 0]

EmptyMap == [k \in {} |-> 0]

\* AddSegment without the second push: the edge is stored in one direction.
AddSegmentOneWay(acc, segs, i) ==
    LET segment == segs[i]
        startKey == canonicalKey(segment.start)
        endKey == canonicalKey(segment.end)
        c0 == acc.nodeIdCounter
        map1 == IF startKey \in DOMAIN acc.nodeMap THEN acc.nodeMap
                ELSE acc.nodeMap @@ (startKey :> c0)
        c1 == IF startKey \in DOMAIN acc.nodeMap THEN c0 ELSE c0 + 1
        map2 == IF endKey \in DOMAIN map1 THEN map1 ELSE map1 @@ (endKey :> c1)
        c2 == IF endKey \in DOMAIN map1 THEN c1 ELSE c1 + 1
        startNode == map2[startKey]
        endNode == map2[endKey]
        g1 == IF startNode \in DOMAIN acc.graph THEN acc.graph
              ELSE acc.graph @@ (startNode :> [coords |-> segment.start, neighbors |-> <<>>])
        g2 == IF endNode \in DOMAIN g1 THEN g1
              ELSE g1 @@ (endNode :> [coords |-> segment.end, neighbors |-> <<>>])
        g3 == [g2 EXCEPT ![startNode].neighbors =
                   Append(@, [node |-> endNode, segment |-> i, distance |-> segment.length])]
    IN  [graph |-> g3, nodeMap |-> map2, nodeIdCounter |-> c2]

\* AddSegment that allocates a node id for the end key without looking
\* whether the key is already in nodeMap.
AddSegmentAlwaysNewEnd(acc, segs, i) ==
    LET segment == segs[i]
        startKey == canonicalKey(segment.start)
        endKey == canonicalKey(segment.end)
        c0 == acc.nodeIdCounter
        map1 == IF startKey \in DOMAIN acc.nodeMap THEN acc.nodeMap
                ELSE acc.nodeMap @@ (startKey :> c0)
        c1 == IF startKey \in DOMAIN acc.nodeMap THEN c0 ELSE c0 + 1
        map2 == (endKey :> c1) @@ map1
        c2 == c1 + 1
        startNode == map1[startKey]
        endNode == c1
        g1 == IF startNode \in DOMAIN acc.graph THEN acc.graph
              ELSE acc.graph @@ (startNode :> [coords |-> segment.start, neighbors |-> <<>>])
        g2 == g1 @@ (endNode :> [coords |-> segment.end, neighbors |-> <<>>])
        g3 == [g2 EXCEPT ![startNode].neighbors =
                   Append(@, [node |-> endNode, segment |-> i, distance |-> segment.length])]
        g4 == [g3 EXCEPT ![endNode].neighbors =
                   Append(@, [node |-> startNode, segment |-> i, distance |-> segment.length])]
    IN  [graph |-> g4, nodeMap |-> map2, nodeIdCounter |-> c2]

\* The body of segments.forEach in buildGraph, for the segment of index i.
AddSegment(acc, segs, i) ==
    LET segment == segs[i]
        startKey == canonicalKey(segment.start)
        endKey == canonicalKey(segment.end)
        c0 == acc.nodeIdCounter
        map1 == IF startKey \in DOMAIN acc.nodeMap THEN acc.nodeMap
                ELSE acc.nodeMap @@ (startKey :> c0)
        c1 == IF startKey \in DOMAIN acc.nodeMap THEN c0 ELSE c0 + 1
        map2 == IF endKey \in DOMAIN map1 THEN map1 ELSE map1 @@ (endKey :> c1)
        c2 == IF endKey \in DOMAIN map1 THEN c1 ELSE c1 + 1
        startNode == map2[startKey]
        endNode == map2[endKey]
        g1 == IF startNode \in DOMAIN acc.graph THEN acc.graph
              ELSE acc.graph @@ (startNode :> [coords |-> segment.start, neighbors |-> <<>>])
        g2 == IF endNode \in DOMAIN g1 THEN g1
              ELSE g1 @@ (endNode :> [coords |-> segment.end, neighbors |-> <<>>])
        g3 == [g2 EXCEPT ![startNode].neighbors =
                   Append(@, Edge(endNode, i, segment.length))]
        g4 == [g3 EXCEPT ![endNode].neighbors =
                   Append(@, Edge(startNode, i, segment.length))]
    IN  [graph |-> g4, nodeMap |-> map2, nodeIdCounter |-> c2]

RECURSIVE BuildFrom(_, _, _)
BuildFrom(acc, segs, i) ==
    IF i > Len(segs) THEN acc
    ELSE BuildFrom(AddSegment(acc, segs, i), segs, i + 1)

buildGraph(segs) ==
    BuildFrom([graph |-> EmptyGraph, nodeMap |-> EmptyMap, nodeIdCounter |-> 0], segs, 1)

\* ------------------------------------------------------------ findClosestNode
\* The scan of findClosestNode over the nodes in key order (node_0 first),
\* from node id i on, with the best node and distance found so far.
RECURSIVE ClosestFrom(_, _, _, _, _)
ClosestFrom(targetCoord, g, i, closestNode, minDistance) ==
    IF i \notin DOMAIN g THEN closestNode
    ELSE LET dist == calculateDistance(targetCoord, g[i].coords)
         IN  IF dist < minDistance
             THEN ClosestFrom(targetCoord, g, i + 1, i, dist)
             ELSE ClosestFrom(targetCoord, g, i + 1, closestNode, minDistance)

\* findClosestNode whose closestNode starts as node_0 instead of null.
findClosestNodeFromZero(targetCoord, g) == ClosestFrom(targetCoord, g, 0, 0, Infinity)

findClosestNode(targetCoord, g) == ClosestFrom(targetCoord, g, 0, NullNode, Infinity)

\* ------------------------------------------------------------------ Dijkstra
\* initDistances without distances[startNode] = 0.
initDistancesNoStart(g, startNode) == [n \in DOMAIN g |-> Infinity]

\* initDistances with every tentative distance starting at 0.
initDistancesZero(g, startNode) == [n \in DOMAIN g |-> 0]

\* distances / previous / unvisited as set up before the main loop.
initDistances(g, startNode) == [n \in DOMAIN g |-> IF n = startNode THEN 0 ELSE Infinity]

initPrevious(g) == [n \in DOMAIN g |-> NullNode]

\* selectCurrent that takes the first unvisited node with a tentative
\* distance below Infinity, whatever the distance.
selectCurrentFirst(dist, unv) ==
    LET cands == {n \in unv : dist[n] < Infinity}
    IN  IF cands = {} THEN NullNode
        ELSE CHOOSE n \in cands : \A m \in cands : n <= m

\* The selection loop: the unvisited node of smallest tentative distance
\* below Infinity, the first of them in the iteration order of the Set
\* (the order of the node ids); null when there is none.
selectCurrent(dist, unv) ==
    LET cands == {n \in unv : dist[n] < Infinity}
    IN  IF cands = {} THEN NullNode
        ELSE LET best == {n \in cands : \A m \in cands : dist[n] <= dist[m]}
             IN  CHOOSE n \in best : \A m \in best : n <= m

\* while (node !== null) { path.unshift(node); node = previous[node]; }
RECURSIVE reconstructPath(_, _)
reconstructPath(prev, node) ==
    IF node = NullNode THEN <<>>
    ELSE Append(reconstructPath(prev, prev[node]), node)

\* fastestAlt without the distance of the current node.
fastestAltEdgeOnly(distCurrent, neighbor) == neighbor.distance

\* const alt = distances[currentNode] + neighbor.distance
fastestAlt(distCurrent, neighbor) == distCurrent + neighbor.distance

\* RelaxFrom without "if (!unvisited.has(neighbor.node)) continue".
RECURSIVE RelaxFromNoVisitedTest(_, _, _, _, _, _)
RelaxFromNoVisitedTest(st, currentNode, unv, nbrs, alts, i) ==
    IF i > Len(nbrs) THEN st
    ELSE LET neighbor == nbrs[i]
             alt == alts[i]
         IN  IF alt < st.distances[neighbor.node]
             THEN RelaxFromNoVisitedTest(
                      [distances |-> [st.distances EXCEPT ![neighbor.node] = alt],
                       previous |-> [st.previous EXCEPT ![neighbor.node] = currentNode],
                       via |-> [st.via EXCEPT ![neighbor.node] = neighbor]],
                      currentNode, unv, nbrs, alts, i + 1)
             ELSE RelaxFromNoVisitedTest(st, currentNode, unv, nbrs, alts, i + 1)

\* The loop over graph[currentNode].neighbors from index i on; w[i] is the
\* cost the variant gives to the i-th neighbor entry; st holds distances,
\* previous and via (via[n]: the neighbor entry whose relaxation assigned
\* previous[n] last, kept for the statement of the properties).
RECURSIVE RelaxFrom(_, _, _, _, _, _)
RelaxFrom(st, currentNode, unv, nbrs, alts, i) ==
    IF i > Len(nbrs) THEN st
    ELSE LET neighbor == nbrs[i]
             alt == alts[i]
         IN  IF neighbor.node \notin unv
             THEN RelaxFrom(st, currentNode, unv, nbrs, alts, i + 1)
             ELSE IF alt < st.distances[neighbor.node]
             THEN RelaxFrom([distances |-> [st.distances EXCEPT ![neighbor.node] = alt],
                             previous |-> [st.previous EXCEPT ![neighbor.node] = currentNode],
                             via |-> [st.via EXCEPT ![neighbor.node] = neighbor]],
                            currentNode, unv, nbrs, alts, i + 1)
             ELSE RelaxFrom(st, currentNode, unv, nbrs, alts, i + 1)

\* -------------------------------------------------------- time of departure
\* parseInt(x) || 12 of an hour-of-day integer
parseHour(t) == IF t = 0 THEN 12 ELSE t

\* getSunriseSunset for the day of the year of the date, in thousandths of
\* an hour, as the formula of the source evaluates (solar time of Vancouver
\* minus the 8 hours of the time zone, wrapped into 0..24):
\*   day 355 (21 Dec): sunrise 0.017, sunset 7.983
\*   day  80 (21 Mar): sunrise 22.031, sunset 9.969
\*   day 172 (21 Jun): sunrise 19.983, sunset 12.017
DaysOfYear == {80, 172, 355}

getSunriseSunset(dayOfYear) ==
    CASE dayOfYear = 355 -> [sunrise |-> 17, sunset |-> 7983]
      [] dayOfYear = 80 -> [sunrise |-> 22031, sunset |-> 9969]
      [] dayOfYear = 172 -> [sunrise |-> 19983, sunset |-> 12017]

\* isNightTime of a date set to hour:00 on the given day of the year
isNightTime(hour, dayOfYear) ==
    LET ss == getSunriseSunset(dayOfYear)
        normalizedHour == hour * 1000
    IN  IF ss.sunset > ss.sunrise
        THEN normalizedHour >= ss.sunset \/ normalizedHour < ss.sunrise
        ELSE normalizedHour >= ss.sunset /\ normalizedHour < ss.sunrise

\* The two definitions of findSafestPath: 1 takes the regime from
\* isNightTime (sunrise and sunset of the current date), 2 from the fixed
\* window isDayTime = (hour > 6 && hour < 19).
Versions == {1, 2}

regimeIsNight(version, timeArg, dayOfYear) ==
    LET hour == parseHour(timeArg)
    IN  IF version = 1 THEN isNightTime(hour, dayOfYear)
        ELSE ~(hour > 6 /\ hour < 19)

\* weightProfile with the crime weight amplified in both regimes.
weightProfileCrimeAlways(night) ==
    IF night
    THEN [lightWeight |-> W_LIGHTING, crimeWeight |-> (W_CRIME * 15) \div 10]
    ELSE [lightWeight |-> DayLightWeight, crimeWeight |-> (W_CRIME * 15) \div 10]

\* lightWeight and crimeWeight of the regime
weightProfile(night) ==
    IF night
    THEN [lightWeight |-> W_LIGHTING, crimeWeight |-> (W_CRIME * 15) \div 10]
    ELSE [lightWeight |-> DayLightWeight, crimeWeight |-> W_CRIME]

\* ------------------------------------------------------------ the edge cost
safetyScore(lightWeight, crimeWeight, scores) ==
    (W_INFRASTRUCTURE * scores.infra) + (lightWeight * scores.light)
    + (W_AMENITY * scores.amenity) + (crimeWeight * scores.crime)
    + (W_DISRUPTION * scores.disruption)

\* edgeCost with the safety bonus added to the distance.
edgeCostBonusAdded(version, night, lightWeight, crimeWeight, distance, scores) ==
    LET score == safetyScore(lightWeight, crimeWeight, scores)
    IN  IF version = 1 /\ ~night
        THEN distance + Max(0, 50 - score) * 15
        ELSE distance + score * 10

\* cost of an edge before the floor: definition 1 at night and definition 2
\* take distance - safetyScore * 0.1; definition 1 by day takes
\* distance + Math.max(0, 5 - safetyScore) * 0.15.
edgeCost(version, night, lightWeight, crimeWeight, distance, scores) ==
    LET score == safetyScore(lightWeight, crimeWeight, scores)
    IN  IF version = 1 /\ ~night
        THEN distance + Max(0, 50 - score) * 15
        ELSE distance - score * 10

\* finalCost without the floor.
finalCostNoFloor(cost) == cost

\* const finalCost = Math.max(0.1, cost)
finalCost(cost) == Max(MinCost, cost)

\* const alt = distances[currentNode] + finalCost
\* safestAlt that adds the cost as computed, without Math.max(0.1, cost).
safestAltNoFloor(distCurrent, neighbor, segs, version, night, lightWeight, crimeWeight) ==
    distCurrent + edgeCost(version, night, lightWeight, crimeWeight,
                           neighbor.distance, segs[neighbor.segment].scores)

safestAlt(distCurrent, neighbor, segs, version, night, lightWeight, crimeWeight) ==
    distCurrent + finalCost(edgeCost(version, night, lightWeight, crimeWeight,
                                     neighbor.distance, segs[neighbor.segment].scores))

\* --------------------------------------------------------- pathToCoordinates
\* node.neighbors.find(n => n.node === nextNode): the index of the first
\* entry leading to nextNode, 0 when there is none.
findNeighbor(nbrs, nextNode) ==
    LET hits == {k \in 1..Len(nbrs) : nbrs[k].node = nextNode}
    IN  IF hits = {} THEN 0 ELSE CHOOSE k \in hits : \A j \in hits : k <= j

\* hopCoordinates whose reversed later hops drop the first stored point
\* (coords.slice(1).reverse()) instead of the last.
hopCoordinatesDropsFar(pathNodeIds, g, segs, i) ==
    LET node == g[pathNodeIds[i]]
        nextNode == pathNodeIds[i + 1]
        k == findNeighbor(node.neighbors, nextNode)
    IN  IF k # 0
        THEN LET coords == segs[node.neighbors[k].segment].coordinates
                 startDist == calculateDistance(coords[1], node.coords)
                 endDist == calculateDistance(coords[Len(coords)], node.coords)
                 shouldReverse == endDist < startDist
             IN  IF i = 1
                 THEN IF shouldReverse THEN Reverse(coords) ELSE coords
                 ELSE IF shouldReverse
                      THEN Reverse(SubSeq(coords, 2, Len(coords)))
                      ELSE SubSeq(coords, 2, Len(coords))
        ELSE IF nextNode \in DOMAIN g
             THEN IF i = 1 THEN <<node.coords, g[nextNode].coords>>
                  ELSE <<g[nextNode].coords>>
             ELSE <<>>

\* The coordinates one hop appends to fullPath (i is the 1-based index of
\* the hop; the source's i === 0 is i = 1 here).
hopCoordinates(pathNodeIds, g, segs, i) ==
    LET node == g[pathNodeIds[i]]
        nextNode == pathNodeIds[i + 1]
        k == findNeighbor(node.neighbors, nextNode)
    IN  IF k # 0
        THEN LET coords == segs[node.neighbors[k].segment].coordinates
                 startDist == calculateDistance(coords[1], node.coords)
                 endDist == calculateDistance(coords[Len(coords)], node.coords)
                 shouldReverse == endDist < startDist
             IN  IF i = 1
                 THEN IF shouldReverse THEN Reverse(coords) ELSE coords
                 ELSE IF shouldReverse
                      THEN Reverse(SubSeq(coords, 1, Len(coords) - 1))
                      ELSE SubSeq(coords, 2, Len(coords))
        ELSE IF nextNode \in DOMAIN g
             THEN IF i = 1 THEN <<node.coords, g[nextNode].coords>>
                  ELSE <<g[nextNode].coords>>
             ELSE <<>>

RECURSIVE HopsFrom(_, _, _, _, _)
HopsFrom(pathNodeIds, g, segs, i, fullPath) ==
    IF i > Len(pathNodeIds) - 1 THEN fullPath
    ELSE IF pathNodeIds[i] \notin DOMAIN g
         THEN HopsFrom(pathNodeIds, g, segs, i + 1, fullPath)
         ELSE HopsFrom(pathNodeIds, g, segs, i + 1,
                       fullPath \o hopCoordinates(pathNodeIds, g, segs, i))

\* "Ensure we end at the final node"
ensureEnd(fullPath, pathNodeIds, g) ==
    LET last == pathNodeIds[Len(pathNodeIds)]
    IN  IF last \in DOMAIN g /\ Len(fullPath) > 0
           /\ calculateDistance(fullPath[Len(fullPath)], g[last].coords) > EndGap
        THEN Append(fullPath, g[last].coords)
        ELSE fullPath

pathToCoordinates(pathNodeIds, g, segs) ==
    IF Len(pathNodeIds) < 2 THEN <<>>
    ELSE ensureEnd(HopsFrom(pathNodeIds, g, segs, 1, <<>>), pathNodeIds, g)

\* Which array object a polyline is: OwnArray for an array made for the
\* request, i > 0 for the coordinates array of segment i of streetData.
OwnArray == 0

\* fullPathArray that hands out the coordinates array of the segment itself
\* when the path is one hop along a segment in its stored direction.
fullPathArrayOfSegment(pathNodeIds, g, segs) ==
    IF Len(pathNodeIds) = 2 /\ pathNodeIds[1] \in DOMAIN g
       /\ findNeighbor(g[pathNodeIds[1]].neighbors, pathNodeIds[2]) # 0
    THEN LET node == g[pathNodeIds[1]]
             s == node.neighbors[findNeighbor(node.neighbors, pathNodeIds[2])].segment
         IN  IF pathToCoordinates(pathNodeIds, g, segs) = segs[s].coordinates
             THEN s ELSE OwnArray
    ELSE OwnArray

\* The array pathToCoordinates returns is the fullPath it creates empty and
\* fills by push; segment coordinates are spread or sliced into it.
fullPathArray(pathNodeIds, g, segs) == OwnArray

\* An assignment to slots of the array object `array`, after which it holds
\* coords: it is seen by the segment whose coordinates array it is.
writeThrough(segs, array, coords) ==
    IF array = OwnArray THEN segs
    ELSE [segs EXCEPT ![array].coordinates = coords]

\* --------------------------------------------------------------------- state
VARIABLES
    streetData,         \* routes.js streetData: the segments loaded
    graph,              \* routes.js graph: node id -> [coords, neighbors]
    nodeMap,            \* routes.js nodeMap: canonical key -> node id
    pc,                 \* position of the server / of the /route handler
    startCoord,         \* /route: the query coordinates
    endCoord,
    startNode,          \* /route: the nodes they snap to
    endNode,
    distances,          \* locals of the path search in progress
    previous,
    unvisited,
    via,                \* history: the neighbor entry that set previous[n]
    finalized,          \* history: the nodes deleted from unvisited, in order
    version,            \* which definition of findSafestPath is running
    isNight,            \* locals of findSafestPath
    lightWeight,
    crimeWeight,
    fastestPathNodes,   \* /route: results of the two searches
    safestPathNodes,
    fastestVia,         \* history: via and distances when findFastestPath returned
    fastestDistances,
    fastestRouteCoords, \* /route: the two polylines
    safestRouteCoords,
    status,             \* /route: HTTP status of the answer, 0 before it
    probe,              \* inputs and results of a function applied on its own
    routeArrays,        \* /route: which array object each polyline is
    loader              \* part_000: isLoading, loadPromise, loadError and the
                        \* callers of initializeData

vars == <<streetData, graph, nodeMap, pc, startCoord, endCoord, startNode, endNode,
          distances, previous, unvisited, via, finalized, version, isNight,
          lightWeight, crimeWeight, fastestPathNodes, safestPathNodes, fastestVia,
          fastestDistances, fastestRouteCoords, safestRouteCoords, status, probe,
          routeArrays, loader>>

dataVars == <<streetData, graph, nodeMap>>

searchVars == <<distances, previous, unvisited, via, finalized>>

profileVars == <<version, isNight, lightWeight, crimeWeight>>

queryVars == <<startCoord, endCoord, startNode, endNode>>

NoEdge == Edge(NullNode, 0, 0)

\* the segments and the locals of findSafestPath the relaxation reads
SearchContext ==
    [segs |-> streetData, version |-> version, isNight |-> isNight,
     lightWeight |-> lightWeight, crimeWeight |-> crimeWeight]

\* Coordinates a client may ask a route between.
QueryCoords == {PA, PB, PC, PD}

\* Hours of the day a client may pass as the time argument, and the ones
\* the /route requests of the model pass.
Hours == 0..23

RouteHours == {0, 12, 22}

\* part_000 before any call of initializeData: streetData and graph null,
\* no load started, no promise made, no caller yet.
NoPromise == 0

\* error.message of the error stored in loadError, and the reason each
\* promise was rejected with: the call that threw; none is NoMessage.
NoMessage == ""

NotLoaded ==
    [hasStreetData |-> FALSE, hasGraph |-> FALSE, isLoading |-> FALSE,
     loadPromise |-> NoPromise, loadError |-> FALSE, loadStarts |-> 0,
     buildStarts |-> 0, promises |-> <<>>, callers |-> <<>>, preloaded |-> FALSE,
     errorMessage |-> NoMessage, reasons |-> <<>>]

NoArrays == [fastest |-> OwnArray, safest |-> OwnArray]

\* The state of the /route handler and of the searches before any request.
QuietRoute ==
    /\ startCoord = <<>> /\ endCoord = <<>>
    /\ startNode = NullNode /\ endNode = NullNode
    /\ distances = <<>> /\ previous = <<>> /\ unvisited = {}
    /\ via = <<>> /\ finalized = <<>>
    /\ version = 0 /\ isNight = FALSE /\ lightWeight = 0 /\ crimeWeight = 0
    /\ fastestPathNodes = <<>> /\ safestPathNodes = <<>>
    /\ fastestVia = <<>> /\ fastestDistances = <<>>
    /\ fastestRouteCoords = <<>> /\ safestRouteCoords = <<>>
    /\ routeArrays = NoArrays
    /\ status = 0

Init ==
    /\ streetData \in SegLists
    /\ graph = EmptyGraph
    /\ nodeMap = EmptyMap
    /\ pc = "boot"
    /\ QuietRoute
    /\ loader = NotLoaded
    /\ probe = <<>>

\* initializeData: the graph is built once from the loaded segments.
InitializeData ==
    /\ pc = "boot"
    /\ LET built == buildGraph(streetData)
       IN  /\ graph' = built.graph
           /\ nodeMap' = built.nodeMap
    /\ pc' = "idle"
    /\ UNCHANGED <<probe, loader, routeArrays, streetData, queryVars, searchVars, profileVars, fastestPathNodes,
                   safestPathNodes, fastestVia, fastestDistances, fastestRouteCoords,
                   safestRouteCoords, status>>

\* altOf whose findSafestPath never relaxes along a segment with a crime
\* score above 5 (alt = Infinity).
altOfClosedWhenUnsafe(distCurrent, neighbor, safest, ctx) ==
    IF safest
    THEN IF ctx.segs[neighbor.segment].scores.crime > 5
         THEN Infinity
         ELSE safestAlt(distCurrent, neighbor, ctx.segs, ctx.version, ctx.isNight,
                        ctx.lightWeight, ctx.crimeWeight)
    ELSE fastestAlt(distCurrent, neighbor)

\* const alt = ... of the search running: findFastestPath when safest is
\* FALSE, else findSafestPath with the locals in ctx.
altOf(distCurrent, neighbor, safest, ctx) ==
    IF safest
    THEN safestAlt(distCurrent, neighbor, ctx.segs, ctx.version, ctx.isNight,
                   ctx.lightWeight, ctx.crimeWeight)
    ELSE fastestAlt(distCurrent, neighbor)

\* loopIteration without unvisited.delete(currentNode).
loopIterationNoDelete(dist, prev, viaEdge, unv, g, target, safest, ctx) ==
    LET currentNode == selectCurrent(dist, unv)
    IN  IF unv = {} \/ currentNode = NullNode \/ dist[currentNode] = Infinity
        THEN [outcome |-> "break", path |-> <<>>, distances |-> dist,
              previous |-> prev, via |-> viaEdge, unvisited |-> unv,
              current |-> currentNode]
        ELSE IF currentNode = target
        THEN [outcome |-> "return", path |-> reconstructPath(prev, target),
              distances |-> dist, previous |-> prev, via |-> viaEdge,
              unvisited |-> unv, current |-> currentNode]
        ELSE LET nbrs == g[currentNode].neighbors
                 alts == [i \in 1..Len(nbrs) |-> altOf(dist[currentNode], nbrs[i], safest, ctx)]
                 st == RelaxFrom([distances |-> dist, previous |-> prev, via |-> viaEdge],
                                 currentNode, unv, nbrs, alts, 1)
             IN  [outcome |-> "loop", path |-> <<>>, distances |-> st.distances,
                  previous |-> st.previous, via |-> st.via, unvisited |-> unv,
                  current |-> currentNode]

\* One iteration of the main loop of a path search.  outcome is "return"
\* (with path), "break" (the loop is left and [] returned) or "loop".
loopIteration(dist, prev, viaEdge, unv, g, target, safest, ctx) ==
    LET currentNode == selectCurrent(dist, unv)
    IN  IF unv = {} \/ currentNode = NullNode \/ dist[currentNode] = Infinity
        THEN [outcome |-> "break", path |-> <<>>, distances |-> dist,
              previous |-> prev, via |-> viaEdge, unvisited |-> unv,
              current |-> currentNode]
        ELSE IF currentNode = target
        THEN [outcome |-> "return", path |-> reconstructPath(prev, target),
              distances |-> dist, previous |-> prev, via |-> viaEdge,
              unvisited |-> unv, current |-> currentNode]
        ELSE LET rest == unv \ {currentNode}
                 nbrs == g[currentNode].neighbors
                 alts == [i \in 1..Len(nbrs) |-> altOf(dist[currentNode], nbrs[i], safest, ctx)]
                 st == RelaxFrom([distances |-> dist, previous |-> prev, via |-> viaEdge],
                                 currentNode, rest, nbrs, alts, 1)
             IN  [outcome |-> "loop", path |-> <<>>, distances |-> st.distances,
                  previous |-> st.previous, via |-> st.via, unvisited |-> rest,
                  current |-> currentNode]

\* GET /route up to the call of findFastestPath: the query coordinates are
\* snapped to nodes; without a node the answer is 400; otherwise
\* findFastestPath sets up its distances.
Route(sc, ec) ==
    /\ pc \in {"idle", "done"}
    /\ startCoord' = sc
    /\ endCoord' = ec
    /\ startNode' = findClosestNode(sc, graph)
    /\ endNode' = findClosestNode(ec, graph)
    /\ fastestPathNodes' = <<>> /\ safestPathNodes' = <<>>
    /\ fastestVia' = <<>> /\ fastestDistances' = <<>>
    /\ fastestRouteCoords' = <<>> /\ safestRouteCoords' = <<>>
    /\ version' = 0 /\ isNight' = FALSE /\ lightWeight' = 0 /\ crimeWeight' = 0
    /\ finalized' = <<>>
    /\ IF startNode' = NullNode \/ endNode' = NullNode
       THEN /\ status' = 400
            /\ pc' = "done"
            /\ distances' = <<>> /\ previous' = <<>> /\ unvisited' = {} /\ via' = <<>>
       ELSE /\ status' = 0
            /\ pc' = "fastest"
            /\ distances' = initDistances(graph, startNode')
            /\ previous' = initPrevious(graph)
            /\ unvisited' = DOMAIN graph
            /\ via' = [n \in DOMAIN graph |-> NoEdge]
    /\ routeArrays' = NoArrays
    /\ UNCHANGED <<probe, loader, dataVars>>

\* findFastestPath: one iteration of the main loop.
FastestStep ==
    /\ pc = "fastest"
    /\ LET it == loopIteration(distances, previous, via, unvisited, graph, endNode,
                               FALSE, SearchContext)
       IN  /\ distances' = it.distances
           /\ previous' = it.previous
           /\ via' = it.via
           /\ unvisited' = it.unvisited
           /\ IF it.outcome = "loop"
              THEN /\ finalized' = Append(finalized, it.current)
                   /\ pc' = "fastest"
                   /\ UNCHANGED <<fastestPathNodes, fastestVia, fastestDistances>>
              ELSE /\ finalized' = finalized
                   /\ pc' = "callSafest"
                   /\ fastestPathNodes' = it.path
                   /\ fastestVia' = it.via
                   /\ fastestDistances' = it.distances
    /\ UNCHANGED <<probe, loader, routeArrays, dataVars, queryVars, profileVars, safestPathNodes,
                   fastestRouteCoords, safestRouteCoords, status>>

\* findSafestPath up to its main loop: the regime and the weight profile are
\* derived from the time argument (and, in definition 1, from the date of
\* the wall clock), and the distances are set up.
CallSafest(v, timeArg, dayOfYear) ==
    /\ pc = "callSafest"
    /\ version' = v
    /\ isNight' = regimeIsNight(v, timeArg, dayOfYear)
    /\ lightWeight' = weightProfile(isNight').lightWeight
    /\ crimeWeight' = weightProfile(isNight').crimeWeight
    /\ distances' = initDistances(graph, startNode)
    /\ previous' = initPrevious(graph)
    /\ unvisited' = DOMAIN graph
    /\ via' = [n \in DOMAIN graph |-> NoEdge]
    /\ finalized' = <<>>
    /\ pc' = "safest"
    /\ UNCHANGED <<probe, loader, routeArrays, dataVars, queryVars, fastestPathNodes, safestPathNodes, fastestVia,
                   fastestDistances, fastestRouteCoords, safestRouteCoords, status>>

\* findSafestPath: one iteration of the main loop.
SafestStep ==
    /\ pc = "safest"
    /\ LET it == loopIteration(distances, previous, via, unvisited, graph, endNode,
                               TRUE, SearchContext)
       IN  /\ distances' = it.distances
           /\ previous' = it.previous
           /\ via' = it.via
           /\ unvisited' = it.unvisited
           /\ IF it.outcome = "loop"
              THEN /\ finalized' = Append(finalized, it.current)
                   /\ pc' = "safest"
                   /\ UNCHANGED safestPathNodes
              ELSE /\ finalized' = finalized
                   /\ pc' = "convert"
                   /\ safestPathNodes' = it.path
    /\ UNCHANGED <<probe, loader, routeArrays, dataVars, queryVars, profileVars, fastestPathNodes, fastestVia,
                   fastestDistances, fastestRouteCoords, safestRouteCoords, status>>

\* /route after the two searches: 404 when both paths are empty, otherwise
\* each non-empty path is converted to coordinates.
Convert ==
    /\ pc = "convert"
    /\ IF Len(fastestPathNodes) = 0 /\ Len(safestPathNodes) = 0
       THEN /\ status' = 404
            /\ pc' = "done"
            /\ UNCHANGED <<fastestRouteCoords, safestRouteCoords, routeArrays>>
       ELSE /\ fastestRouteCoords' =
                  IF Len(fastestPathNodes) > 0
                  THEN pathToCoordinates(fastestPathNodes, graph, streetData) ELSE <<>>
            /\ safestRouteCoords' =
                  IF Len(safestPathNodes) > 0
                  THEN pathToCoordinates(safestPathNodes, graph, streetData) ELSE <<>>
            /\ routeArrays' =
                  [fastest |-> IF Len(fastestPathNodes) > 0
                               THEN fullPathArray(fastestPathNodes, graph, streetData)
                               ELSE OwnArray,
                   safest |-> IF Len(safestPathNodes) > 0
                              THEN fullPathArray(safestPathNodes, graph, streetData)
                              ELSE OwnArray]
            /\ pc' = "respond"
            /\ UNCHANGED status
    /\ UNCHANGED <<probe, loader, dataVars, queryVars, searchVars, profileVars, fastestPathNodes,
                   safestPathNodes, fastestVia, fastestDistances>>

\* overwriteEnds that sets the first point only.
overwriteEndsFirstOnly(coords, sc, ec) ==
    IF Len(coords) > 0 THEN [coords EXCEPT ![1] = sc] ELSE coords

\* "Ensure routes start and end at exact coordinates"
overwriteEnds(coords, sc, ec) ==
    IF Len(coords) > 0
    THEN [[coords EXCEPT ![1] = sc] EXCEPT ![Len(coords)] = ec]
    ELSE coords

\* /route: the first and last points are overwritten and the answer is sent.
Respond ==
    /\ pc = "respond"
    /\ fastestRouteCoords' = overwriteEnds(fastestRouteCoords, startCoord, endCoord)
    /\ safestRouteCoords' = overwriteEnds(safestRouteCoords, startCoord, endCoord)
    /\ streetData' = writeThrough(
                         writeThrough(streetData, routeArrays.fastest, fastestRouteCoords'),
                         routeArrays.safest, safestRouteCoords')
    /\ status' = 200
    /\ pc' = "done"
    /\ UNCHANGED <<probe, loader, routeArrays, graph, nodeMap, queryVars, searchVars, profileVars, fastestPathNodes,
                   safestPathNodes, fastestVia, fastestDistances>>

Next ==
    \/ InitializeData
    \/ \E sc \in QueryCoords, ec \in QueryCoords : Route(sc, ec)
    \/ FastestStep
    \/ \E v \in Versions, t \in RouteHours, d \in DaysOfYear : CallSafest(v, t, d)
    \/ SafestStep
    \/ Convert
    \/ Respond

Spec == Init /\ [][Next]_vars

\* ------------------------------------------- the edge cost applied on its own
\* Edge distances and score values fed to the cost of findSafestPath: from
\* far below to far above the scale of 0..10 the loader produces.
CostDistances == {0, 100, 1500}

ScoreValues == {0 - 100, 0, 4, 1000}

ScoreFields == {"infra", "light", "amenity", "crime", "disruption"}

ScoreRecords ==
    [infra : ScoreValues, light : ScoreValues, crime : ScoreValues,
     amenity : ScoreValues, disruption : ScoreValues]

\* by how much a score is raised
Raises == {1, 30}

\* the scores with one of them raised
raiseScore(scores, field, by) ==
    CASE field = "infra" -> [scores EXCEPT !.infra = @ + by]
      [] field = "light" -> [scores EXCEPT !.light = @ + by]
      [] field = "amenity" -> [scores EXCEPT !.amenity = @ + by]
      [] field = "crime" -> [scores EXCEPT !.crime = @ + by]
      [] field = "disruption" -> [scores EXCEPT !.disruption = @ + by]

InitCost ==
    /\ pc = "cost"
    /\ probe \in [version : Versions, night : BOOLEAN, distance : CostDistances,
                  scores : ScoreRecords, field : ScoreFields, raise : Raises]
    /\ streetData = <<>> /\ graph = EmptyGraph /\ nodeMap = EmptyMap
    /\ QuietRoute
    /\ loader = NotLoaded

\* The cost lines of the relaxation of findSafestPath, for an edge with the
\* probe's distance and scores and for the same edge with one score raised.
ApplyCost ==
    /\ pc = "cost"
    /\ LET w == weightProfile(probe.night)
           raised == raiseScore(probe.scores, probe.field, probe.raise)
       IN  probe' = [input |-> probe,
                     lightWeight |-> w.lightWeight,
                     crimeWeight |-> w.crimeWeight,
                     safetyScore |-> safetyScore(w.lightWeight, w.crimeWeight, probe.scores),
                     cost |-> edgeCost(probe.version, probe.night, w.lightWeight,
                                       w.crimeWeight, probe.distance, probe.scores),
                     finalCost |-> finalCost(edgeCost(probe.version, probe.night,
                                       w.lightWeight, w.crimeWeight, probe.distance,
                                       probe.scores)),
                     raisedScore |-> safetyScore(w.lightWeight, w.crimeWeight, raised),
                     raisedFinalCost |-> finalCost(edgeCost(probe.version, probe.night,
                                       w.lightWeight, w.crimeWeight, probe.distance,
                                       raised))]
    /\ pc' = "costed"
    /\ UNCHANGED <<loader, routeArrays, dataVars, queryVars, searchVars, profileVars, fastestPathNodes,
                   safestPathNodes, fastestVia, fastestDistances, fastestRouteCoords,
                   safestRouteCoords, status>>

NextCost == ApplyCost

SpecCost == InitCost /\ [][NextCost]_vars

\* ------------------------------------- the day/night regime applied on its own
InitTime ==
    /\ pc = "time"
    /\ probe \in [version : Versions, timeArg : Hours, dayOfYear : DaysOfYear]
    /\ streetData = <<>> /\ graph = EmptyGraph /\ nodeMap = EmptyMap
    /\ QuietRoute
    /\ loader = NotLoaded

\* The head of findSafestPath: hour, regime and weight profile of a call
\* with an hour-of-day integer as the time argument.
ApplyRegime ==
    /\ pc = "time"
    /\ LET night == regimeIsNight(probe.version, probe.timeArg, probe.dayOfYear)
       IN  probe' = [input |-> probe,
                     hour |-> parseHour(probe.timeArg),
                     isNight |-> night,
                     lightWeight |-> weightProfile(night).lightWeight,
                     crimeWeight |-> weightProfile(night).crimeWeight]
    /\ pc' = "timed"
    /\ UNCHANGED <<loader, routeArrays, dataVars, queryVars, searchVars, profileVars, fastestPathNodes,
                   safestPathNodes, fastestVia, fastestDistances, fastestRouteCoords,
                   safestRouteCoords, status>>

NextTime == ApplyRegime

SpecTime == InitTime /\ [][NextTime]_vars

\* ===================================================================== claims
Built == pc \notin {"boot", "cost", "costed", "time", "timed"}

\* number of entries of node a's neighbor list that equal e
EdgeCount(a, e) ==
    Cardinality({k \in 1..Len(graph[a].neighbors) : graph[a].neighbors[k] = e})

\* C1: the graph buildGraph returns is symmetric: every entry (B, S, w) of
\* node A's neighbor list is matched by an entry (A, S, w) of node B's list,
\* as often as it occurs; a segment whose endpoints are one node leaves its
\* two entries in that node's list.
C1_Symmetric ==
    Built =>
        \A a \in DOMAIN graph :
            \A k \in 1..Len(graph[a].neighbors) :
                LET e == graph[a].neighbors[k]
                IN  /\ e.node \in DOMAIN graph
                    /\ e.distance = streetData[e.segment].length
                    /\ IF e.node = a
                       THEN EdgeCount(a, e) = 2
                       ELSE EdgeCount(e.node, Edge(a, e.segment, e.distance)) = EdgeCount(a, e)

\* a built graph with a segment between two nodes and one whose endpoints
\* canonicalize to one node
C1_Witness ==
    /\ pc = "idle"
    /\ \E a \in DOMAIN graph :
           /\ \E k \in 1..Len(graph[a].neighbors) : graph[a].neighbors[k].node = a
           /\ \E k \in 1..Len(graph[a].neighbors) : graph[a].neighbors[k].node # a

RECURSIVE SumSeq(_)
SumSeq(s) == IF s = <<>> THEN 0 ELSE s[1] + SumSeq(Tail(s))

\* the distances of the parallel edges from a to b
ParallelDistances(a, b) ==
    {graph[a].neighbors[k].distance :
        k \in {j \in 1..Len(graph[a].neighbors) : graph[a].neighbors[j].node = b}}

FastestReturned == Built /\ pc \notin {"idle", "fastest"} /\ startNode # NullNode
                   /\ endNode # NullNode

\* C2: when findFastestPath returns a non-empty path, the tentative distance
\* of the destination is the sum, over the hops of the path, of the distance
\* of the edge that set the predecessor pointer of the hop, which is the
\* smallest distance among the parallel edges of the hop.
C2_PathCostIsSum ==
    (FastestReturned /\ fastestPathNodes # <<>>) =>
        LET path == fastestPathNodes
            hops == [i \in 1..(Len(path) - 1) |-> fastestVia[path[i + 1]].distance]
        IN  /\ fastestDistances[endNode] = SumSeq(hops)
            /\ \A i \in 1..(Len(path) - 1) :
                   /\ fastestVia[path[i + 1]].node = path[i + 1]
                   /\ ParallelDistances(path[i], path[i + 1]) # {}
                   /\ \A d \in ParallelDistances(path[i], path[i + 1]) : hops[i] <= d

\* a returned path of two hops, the first over parallel edges of different
\* distances
C2_Witness ==
    /\ pc = "callSafest"
    /\ Len(fastestPathNodes) = 3
    /\ Cardinality(ParallelDistances(fastestPathNodes[1], fastestPathNodes[2])) = 2

\* C3: findFastestPath(graph, X, X) returns [X] with accumulated distance 0
\* and without relaxing an edge: no node has left the unvisited set and no
\* tentative distance or predecessor differs from its initial value.
C3_SameNode ==
    (pc = "callSafest" /\ startNode = endNode) =>
        /\ fastestPathNodes = <<startNode>>
        /\ fastestDistances[startNode] = 0
        /\ finalized = <<>>
        /\ unvisited = DOMAIN graph
        /\ \A n \in DOMAIN graph :
               /\ n # startNode => fastestDistances[n] = Infinity
               /\ previous[n] = NullNode
               /\ fastestVia[n] = NoEdge

\* findFastestPath has returned for a start node that is the end node and
\* has neighbors
C3_Witness ==
    /\ pc = "callSafest"
    /\ startNode = endNode
    /\ Len(graph[startNode].neighbors) > 0
    /\ fastestPathNodes = <<startNode>>

\* the nodes reachable from the set seen over edges of the graph
RECURSIVE ReachableFrom(_)
ReachableFrom(seen) ==
    LET more == seen \cup UNION {{graph[a].neighbors[k].node :
                                     k \in 1..Len(graph[a].neighbors)} : a \in seen}
    IN  IF more = seen THEN seen ELSE ReachableFrom(more)

Connected(a, b) == b \in ReachableFrom({a})

\* C4: when the start node and the end node lie in different connected
\* components, findFastestPath and findSafestPath (either definition, day
\* or night) return the empty path, and the handler answers 404, not 500.
C4_DisconnectedEmpty ==
    (FastestReturned /\ ~Connected(startNode, endNode)) =>
        /\ fastestPathNodes = <<>>
        /\ safestPathNodes = <<>>
        /\ pc = "done" => status = 404

\* both searches have returned for nodes of different components, the
\* second under the day regime of definition 1
C4_Witness ==
    /\ pc = "convert"
    /\ ~Connected(startNode, endNode)
    /\ version = 1 /\ ~isNight
    /\ Len(graph[startNode].neighbors) > 0 /\ Len(graph[endNode].neighbors) > 0

\* C5: for every edge distance and every combination of scores, however
\* large or negative, in both regimes and both definitions, the cost that
\* findSafestPath adds to a tentative distance is at least 0.1, so greater
\* than zero.
C5_CostPositive ==
    pc = "costed" =>
        /\ probe.finalCost >= 100
        /\ probe.finalCost > 0
        /\ probe.raisedFinalCost >= 100

\* an edge whose cost before the floor is negative has been costed
C5_Witness ==
    /\ pc = "costed"
    /\ probe.cost < 0
    /\ probe.input.scores.infra = 1000
    /\ probe.finalCost = 100

PositiveFields == {"infra", "light", "amenity"}

\* the safety score from which definition 1 adds no penalty by day (5.0)
PenaltyRegime(in) == in.version = 1 /\ ~in.night

\* C7 as claimed: raising infra, light or amenity on one of two otherwise
\* identical edges makes its final cost strictly lower, raising crime or
\* disruption strictly higher.
C7_StrictlyMonotone ==
    pc = "costed" =>
        IF probe.input.field \in PositiveFields
        THEN probe.raisedFinalCost < probe.finalCost
        ELSE probe.raisedFinalCost > probe.finalCost

\* C7 as amended: raising infra, light or amenity never raises the final
\* cost and raising crime or disruption never lowers it; the difference is
\* strict exactly when the less safe of the two edges has a final cost above
\* the floor of 0.1 and, in the day regime of definition 1, a safety score
\* below 5; otherwise the two final costs are equal.
C7_MonotoneAboveFloor ==
    pc = "costed" =>
        LET positive == probe.input.field \in PositiveFields
            \* the less safe edge: the base one when a positive score is
            \* raised, the raised one when crime or disruption is
            lowScore == IF positive THEN probe.safetyScore ELSE probe.raisedScore
            lowCost == IF positive THEN probe.finalCost ELSE probe.raisedFinalCost
            highCost == IF positive THEN probe.raisedFinalCost ELSE probe.finalCost
            strict == lowCost > MinCost
                      /\ (PenaltyRegime(probe.input) => lowScore < 50)
        IN  /\ highCost <= lowCost
            /\ strict <=> highCost < lowCost

\* a positive score was raised on an edge above the floor and its cost fell,
\* in the day regime of definition 1
C7_Witness ==
    /\ pc = "costed"
    /\ probe.input.field = "light"
    /\ PenaltyRegime(probe.input)
    /\ probe.finalCost > MinCost
    /\ probe.raisedFinalCost < probe.finalCost

\* C8: the safety score of an edge is 2.5*infra + lightWeight*light +
\* 1.5*amenity + crimeWeight*crime - 2.0*disruption with lightWeight 2.0 and
\* crimeWeight -4.5 at night, lightWeight 0.1 and crimeWeight -3.0 by day,
\* and a search never runs with another pair of weights (values in tenths).
C8_WeightProfiles ==
    pc = "costed" =>
        LET s == probe.input.scores
            lw == IF probe.input.night THEN 20 ELSE 1
            cw == IF probe.input.night THEN 0 - 45 ELSE 0 - 30
        IN  /\ probe.lightWeight = lw
            /\ probe.crimeWeight = cw
            /\ probe.safetyScore =
                   25 * s.infra + lw * s.light + 15 * s.amenity + cw * s.crime
                   - 20 * s.disruption

\* an edge with five different non-zero scores has been scored at night
C8_Witness ==
    /\ pc = "costed"
    /\ probe.input.night
    /\ probe.input.scores = Scores(4, 1000, 0 - 100, 4, 1000)
    /\ probe.safetyScore = 100 + 20000 + 60 + 4500 - 20000

\* C9 as claimed: for an hour-of-day integer h the regime is derived from h
\* itself; in the fixed-window definition the day profile is used exactly
\* when 7 <= h <= 18 and the night profile for every other h, h = 0
\* included.
C9_RegimeFromHour ==
    pc = "timed" =>
        /\ probe.hour = probe.input.timeArg
        /\ probe.input.version = 2 =>
               (probe.isNight <=> ~(7 <= probe.input.timeArg /\ probe.input.timeArg <= 18))

\* C6 as claimed: in the graph of two parallel edges between the start and
\* the end node, one shorter with the lower safety score and one longer
\* with the higher, at night findFastestPath selects the shorter edge,
\* findSafestPath the longer one, and the results of the two calls tell
\* which edge was selected.
C6_ParallelEdgesTold ==
    (pc = "convert" /\ isNight /\ Len(streetData) = 2 /\ startNode # endNode) =>
        \A k1, k2 \in 1..Len(graph[startNode].neighbors) :
            LET short == graph[startNode].neighbors[k1]
                long == graph[startNode].neighbors[k2]
                score(e) == safetyScore(lightWeight, crimeWeight,
                                        streetData[e.segment].scores)
            IN  (/\ short.node = endNode /\ long.node = endNode
                 /\ short.distance < long.distance
                 /\ score(short) < score(long)) =>
                    /\ fastestVia[endNode] = short
                    /\ via[endNode] = long
                    /\ fastestPathNodes # safestPathNodes

\* C10 as claimed: for a two-node path [A, B] pathToCoordinates returns a
\* sequence whose first element is A's stored coordinate and whose last
\* element is B's stored coordinate.
C10_EndsAtNodes ==
    pc = "respond" =>
        /\ Len(fastestPathNodes) = 2 =>
               /\ fastestRouteCoords[1] = graph[fastestPathNodes[1]].coords
               /\ fastestRouteCoords[Len(fastestRouteCoords)]
                      = graph[fastestPathNodes[2]].coords
        /\ Len(safestPathNodes) = 2 =>
               /\ safestRouteCoords[1] = graph[safestPathNodes[1]].coords
               /\ safestRouteCoords[Len(safestRouteCoords)]
                      = graph[safestPathNodes[2]].coords

\* ------------------------------ buildGraph and findClosestNode on their own
\* Longest list of segments of these runs.
MaxBuildSegs == 3

\* PF lies 3e-7 degree north of PA2, in the next rounding cell of 1e-6.
PF == <<6, -2>>

DefaultScores == Scores(4, 5, 3, 4, 0)

BuildPool ==
    { Segment(<<PA, PB>>, 100, DefaultScores),
      Segment(<<PA2, PM, PC>>, 250, DefaultScores),
      Segment(<<PF, PB>>, 100, DefaultScores),
      Segment(<<PB, PA2>>, 120, DefaultScores),
      Segment(<<PC, PM, PC2>>, 300, DefaultScores),
      Segment(<<PD, PA>>, 150, DefaultScores) }

InitBuild ==
    /\ pc = "build"
    /\ streetData \in SeqsUpTo(BuildPool, MaxBuildSegs)
    /\ graph = EmptyGraph
    /\ nodeMap = EmptyMap
    /\ QuietRoute
    /\ loader = NotLoaded
    /\ probe = <<>>

\* buildGraph(segments)
BuildOnly ==
    /\ pc = "build"
    /\ LET built == buildGraph(streetData)
       IN  /\ graph' = built.graph
           /\ nodeMap' = built.nodeMap
    /\ pc' = "built"
    /\ UNCHANGED <<probe, loader, routeArrays, streetData, queryVars, searchVars, profileVars,
                   fastestPathNodes, safestPathNodes, fastestVia, fastestDistances,
                   fastestRouteCoords, safestRouteCoords, status>>

\* findClosestNode(segment.start, graph) for the segment of index i
SnapStart(i) ==
    /\ pc = "built"
    /\ probe' = [segment |-> i, node |-> findClosestNode(streetData[i].start, graph)]
    /\ pc' = "snapped"
    /\ UNCHANGED <<loader, routeArrays, dataVars, queryVars, searchVars, profileVars, fastestPathNodes,
                   safestPathNodes, fastestVia, fastestDistances, fastestRouteCoords,
                   safestRouteCoords, status>>

NextBuild ==
    \/ BuildOnly
    \/ \E i \in 1..Len(streetData) : SnapStart(i)

SpecBuild == InitBuild /\ [][NextBuild]_vars

\* C11 as claimed: findClosestNode(segment.start, graph) returns the node id
\* buildGraph assigned to the canonical key of segment.start, also when
\* another segment with a different raw coordinate created that node.
C11_SnapsToOwnNode ==
    pc = "snapped" =>
        probe.node = nodeMap[canonicalKey(streetData[probe.segment].start)]

\* the endpoints of the segments given to buildGraph
Endpoints == {streetData[i].start : i \in 1..Len(streetData)}
             \cup {streetData[i].end : i \in 1..Len(streetData)}

\* p and q agree when rounded to 6 decimals: the latitudes (positive) lie in
\* one interval [k - 0.5, k + 0.5) of 1e-6 degree, the longitudes
\* (negative, rounded on the magnitude) in one interval (k - 0.5, k + 0.5].
SameRounded6(p, q) ==
    /\ \E k \in -200..200 : /\ 10 * k - 5 <= p[1] /\ p[1] < 10 * k + 5
                            /\ 10 * k - 5 <= q[1] /\ q[1] < 10 * k + 5
    /\ \E k \in -200..200 : /\ 10 * k - 5 < p[2] /\ p[2] <= 10 * k + 5
                            /\ 10 * k - 5 < q[2] /\ q[2] <= 10 * k + 5

RECURSIVE SumLengths(_, _)
SumLengths(g, nodes) ==
    IF nodes = {} THEN 0
    ELSE LET n == CHOOSE x \in nodes : TRUE
         IN  Len(g[n].neighbors) + SumLengths(g, nodes \ {n})

\* C16: buildGraph appends exactly two edges per segment (the neighbor lists
\* hold twice as many entries as there are segments), two endpoints get the
\* same node id exactly when their coordinates agree rounded to 6 decimals,
\* and there are as many nodes as distinct canonical keys.
C16_TwoEdgesOneNodePerKey ==
    pc \in {"built", "snapped"} =>
        /\ SumLengths(graph, DOMAIN graph) = 2 * Len(streetData)
        /\ \A p \in Endpoints : canonicalKey(p) \in DOMAIN nodeMap
        /\ \A p, q \in Endpoints :
               (nodeMap[canonicalKey(p)] = nodeMap[canonicalKey(q)]) <=> SameRounded6(p, q)
        /\ Cardinality(DOMAIN graph) = Cardinality({canonicalKey(p) : p \in Endpoints})
        /\ \A p \in Endpoints : nodeMap[canonicalKey(p)] \in DOMAIN graph

\* a graph of three segments, two of them parallel, on fewer nodes than
\* distinct raw endpoints
C16_Witness ==
    /\ pc = "built"
    /\ Len(streetData) = 3
    /\ Cardinality(DOMAIN graph) < Cardinality(Endpoints)
    /\ \E a \in DOMAIN graph : \E j, k \in 1..Len(graph[a].neighbors) :
           j # k /\ graph[a].neighbors[j].node = graph[a].neighbors[k].node
                 /\ graph[a].neighbors[j].node # a

\* ------------------------------------------------- the /route answer (Spec)
\* C12: every non-empty polyline of a /route response has the caller's start
\* query coordinate as its first point and the caller's end query coordinate
\* as its last point.
C12_EndsAtQuery ==
    (pc = "done" /\ status = 200) =>
        /\ Len(fastestRouteCoords) > 0 =>
               /\ fastestRouteCoords[1] = startCoord
               /\ fastestRouteCoords[Len(fastestRouteCoords)] = endCoord
        /\ Len(safestRouteCoords) > 0 =>
               /\ safestRouteCoords[1] = startCoord
               /\ safestRouteCoords[Len(safestRouteCoords)] = endCoord

\* an answer with both polylines, for query coordinates that are not the
\* coordinates of the nodes they snapped to
C12_Witness ==
    /\ pc = "done" /\ status = 200
    /\ Len(fastestRouteCoords) > 0 /\ Len(safestRouteCoords) > 0
    /\ startCoord # graph[startNode].coords
    /\ endCoord # graph[endNode].coords

\* C13: on a graph with no nodes findClosestNode returns null, and the
\* /route handler answers 400 without running findFastestPath,
\* findSafestPath or pathToCoordinates.
C13_EmptyGraph400 ==
    (pc \notin {"boot", "idle"} /\ DOMAIN graph = {}) =>
        /\ \A c \in QueryCoords : findClosestNode(c, graph) = NullNode
        /\ pc = "done" /\ status = 400
        /\ startNode = NullNode /\ endNode = NullNode
        /\ distances = <<>> /\ previous = <<>> /\ finalized = <<>>
        /\ fastestPathNodes = <<>> /\ safestPathNodes = <<>>
        /\ fastestRouteCoords = <<>> /\ safestRouteCoords = <<>>

\* a request answered on the graph of an empty street data list
C13_Witness ==
    /\ pc = "done" /\ streetData = <<>> /\ DOMAIN graph = {}
    /\ startCoord # <<>> /\ status = 400

\* C14: once built, the graph is left unchanged by every step of a /route
\* request (the snapping, the two searches, the conversion, the overwrite of
\* the first and last polyline points): nodes, node coordinates, neighbor
\* lists and the segments' coordinates and scores stay as buildGraph left
\* them.
C14_GraphUnchanged ==
    [][pc # "boot" => (streetData' = streetData /\ graph' = graph /\ nodeMap' = nodeMap)]_vars

\* an answer whose fastest polyline is one hop along a segment in its stored
\* direction and whose first and last points were both changed by the
\* overwrite
C14_Witness ==
    /\ pc = "done" /\ status = 200
    /\ Len(fastestPathNodes) = 2
    /\ \E i \in 1..Len(streetData) :
           /\ pathToCoordinates(fastestPathNodes, graph, streetData) = streetData[i].coordinates
           /\ fastestRouteCoords # streetData[i].coordinates

\* ------------------------------- the promise-based initializeData (part_000)
\* Most /route requests of these runs.
MaxRequests == 3

\* What a load that is started will do: loadStreetData throws (a file cannot
\* be read), or returns data on which buildGraph throws, or both succeed.
LoadOutcomes ==
    {[throws |-> "loadStreetData", data |-> <<>>], [throws |-> "buildGraph", data |-> <<>>]}
    \cup {[throws |-> "nothing", data |-> d] : d \in SeqsUpTo(BuildPool, 1)}

\* the load has come to its end, well or badly
Settled(ld) == (ld.hasStreetData /\ ld.hasGraph) \/ ld.loadError

\* initializeData that does not look whether the data is already loaded.
initializeDataNoLoadedTest(ld, outcome) ==
    IF ld.isLoading /\ ld.loadPromise # NoPromise
    THEN [loader |-> ld, promise |-> ld.loadPromise, built |-> FALSE]
    ELSE IF ld.loadError
    THEN [loader |-> [ld EXCEPT !.promises = Append(@, "rejected"),
                                !.reasons = Append(@, ld.errorMessage)],
          promise |-> Len(ld.promises) + 1, built |-> FALSE]
    ELSE LET p == Len(ld.promises) + 1
         IN  [loader |-> [ld EXCEPT !.hasStreetData = outcome.throws # "loadStreetData",
                                    !.hasGraph = outcome.throws = "nothing",
                                    !.isLoading = FALSE,
                                    !.loadError = outcome.throws # "nothing",
                                    !.loadStarts = @ + 1,
                                    !.buildStarts =
                                        IF outcome.throws = "loadStreetData" THEN @ ELSE @ + 1,
                                    !.loadPromise = p,
                                    !.promises = Append(@, IF outcome.throws = "nothing"
                                                           THEN "resolved" ELSE "rejected"),
                                    !.errorMessage = IF outcome.throws = "nothing"
                                                     THEN @ ELSE outcome.throws,
                                    !.reasons = Append(@, IF outcome.throws = "nothing"
                                                          THEN NoMessage ELSE outcome.throws)],
              promise |-> p, built |-> outcome.throws = "nothing"]

\* initializeData without the test of loadError: a call after a failed load
\* starts the load again.
initializeDataNoErrorTest(ld, outcome) ==
    IF ld.hasStreetData /\ ld.hasGraph
    THEN [loader |-> [ld EXCEPT !.promises = Append(@, "resolved"),
                                !.reasons = Append(@, NoMessage)],
          promise |-> Len(ld.promises) + 1, built |-> FALSE]
    ELSE IF ld.isLoading /\ ld.loadPromise # NoPromise
    THEN [loader |-> ld, promise |-> ld.loadPromise, built |-> FALSE]
    ELSE LET p == Len(ld.promises) + 1
         IN  [loader |-> [ld EXCEPT !.hasStreetData = outcome.throws # "loadStreetData",
                                    !.hasGraph = outcome.throws = "nothing",
                                    !.isLoading = FALSE,
                                    !.loadError = outcome.throws # "nothing",
                                    !.loadStarts = @ + 1,
                                    !.buildStarts =
                                        IF outcome.throws = "loadStreetData" THEN @ ELSE @ + 1,
                                    !.loadPromise = p,
                                    !.promises = Append(@, IF outcome.throws = "nothing"
                                                           THEN "resolved" ELSE "rejected"),
                                    !.errorMessage = IF outcome.throws = "nothing"
                                                     THEN @ ELSE outcome.throws,
                                    !.reasons = Append(@, IF outcome.throws = "nothing"
                                                          THEN NoMessage ELSE outcome.throws)],
              promise |-> p, built |-> outcome.throws = "nothing"]

\* initializeData(): the module state after the call, the promise returned
\* (its index in promises) and whether streetData, graph and nodeMap were
\* assigned. The executor of new Promise runs inside the call, so the load
\* and the build are over, and isLoading is false again, when it returns.
initializeData(ld, outcome) ==
    IF ld.hasStreetData /\ ld.hasGraph
    THEN [loader |-> [ld EXCEPT !.promises = Append(@, "resolved"),
                                !.reasons = Append(@, NoMessage)],
          promise |-> Len(ld.promises) + 1, built |-> FALSE]
    ELSE IF ld.isLoading /\ ld.loadPromise # NoPromise
    THEN [loader |-> ld, promise |-> ld.loadPromise, built |-> FALSE]
    ELSE IF ld.loadError
    THEN [loader |-> [ld EXCEPT !.promises = Append(@, "rejected"),
                                !.reasons = Append(@, ld.errorMessage)],
          promise |-> Len(ld.promises) + 1, built |-> FALSE]
    ELSE LET p == Len(ld.promises) + 1
         IN  [loader |-> [ld EXCEPT !.hasStreetData = outcome.throws # "loadStreetData",
                                    !.hasGraph = outcome.throws = "nothing",
                                    !.isLoading = FALSE,
                                    !.loadError = outcome.throws # "nothing",
                                    !.loadStarts = @ + 1,
                                    !.buildStarts =
                                        IF outcome.throws = "loadStreetData" THEN @ ELSE @ + 1,
                                    !.loadPromise = p,
                                    !.promises = Append(@, IF outcome.throws = "nothing"
                                                           THEN "resolved" ELSE "rejected"),
                                    !.errorMessage = IF outcome.throws = "nothing"
                                                     THEN @ ELSE outcome.throws,
                                    !.reasons = Append(@, IF outcome.throws = "nothing"
                                                          THEN NoMessage ELSE outcome.throws)],
              promise |-> p, built |-> outcome.throws = "nothing"]

InitLoader ==
    /\ pc = "serving"
    /\ streetData = <<>>
    /\ graph = EmptyGraph
    /\ nodeMap = EmptyMap
    /\ QuietRoute
    /\ loader = NotLoaded
    /\ probe = <<>>

\* One call of initializeData by `who`, who is left at `stage`.
CallInitializeData(who, stage, outcome) ==
    LET r == initializeData(loader, outcome)
        caller == [who |-> who, promise |-> r.promise, early |-> ~Settled(loader),
                   stage |-> stage]
    IN  /\ loader' = [r.loader EXCEPT !.callers = Append(@, caller),
                                      !.preloaded = @ \/ who = "preload"]
        /\ IF r.built
           THEN /\ streetData' = outcome.data
                /\ graph' = buildGraph(outcome.data).graph
                /\ nodeMap' = buildGraph(outcome.data).nodeMap
           ELSE UNCHANGED dataVars

\* setImmediate(() => initializeData().catch(...))
Preload(outcome) ==
    /\ pc = "serving"
    /\ ~loader.preloaded
    /\ CallInitializeData("preload", "done", outcome)
    /\ UNCHANGED <<probe, routeArrays, pc, queryVars, searchVars, profileVars,
                   fastestPathNodes, safestPathNodes, fastestVia, fastestDistances,
                   fastestRouteCoords, safestRouteCoords, status>>

\* /route: the handler starts and stops at await initializeData()
RouteArrive(outcome) ==
    /\ pc = "serving"
    /\ Cardinality({i \in 1..Len(loader.callers) : loader.callers[i].who = "route"})
           < MaxRequests
    /\ CallInitializeData("route", "awaiting", outcome)
    /\ UNCHANGED <<probe, routeArrays, pc, queryVars, searchVars, profileVars,
                   fastestPathNodes, safestPathNodes, fastestVia, fastestDistances,
                   fastestRouteCoords, safestRouteCoords, status>>

\* /route: the handler goes on after the await, into the routing when the
\* promise was resolved and into the catch (500) when it was rejected
RouteResume(i) ==
    /\ pc = "serving"
    /\ i \in 1..Len(loader.callers)
    /\ loader.callers[i].stage = "awaiting"
    /\ loader' = [loader EXCEPT !.callers[i].stage =
                      IF loader.promises[loader.callers[i].promise] = "resolved"
                      THEN "routing" ELSE "failed"]
    /\ UNCHANGED <<probe, routeArrays, pc, dataVars, queryVars, searchVars, profileVars,
                   fastestPathNodes, safestPathNodes, fastestVia, fastestDistances,
                   fastestRouteCoords, safestRouteCoords, status>>

\* the body /status answers with
statusReport(ld, segs, g) ==
    [loaded |-> ld.hasStreetData /\ ld.hasGraph,
     loading |-> ld.isLoading,
     segments |-> IF ld.hasStreetData THEN Len(segs) ELSE 0,
     nodes |-> IF ld.hasGraph THEN Cardinality(DOMAIN g) ELSE 0,
     error |-> IF ld.loadError THEN ld.errorMessage ELSE NoMessage]

\* GET /status: the answer is kept in probe
Status ==
    /\ pc = "serving"
    /\ probe' = statusReport(loader, streetData, graph)
    /\ UNCHANGED <<loader, routeArrays, pc, dataVars, queryVars, searchVars, profileVars,
                   fastestPathNodes, safestPathNodes, fastestVia, fastestDistances,
                   fastestRouteCoords, safestRouteCoords, status>>

NextLoader ==
    \/ \E outcome \in LoadOutcomes : Preload(outcome)
    \/ \E outcome \in LoadOutcomes : RouteArrive(outcome)
    \/ \E i \in 1..(MaxRequests + 1) : RouteResume(i)
    \/ Status

SpecLoader == InitLoader /\ [][NextLoader]_vars

\* C15: over every interleaving of the background preload and the /route
\* requests, loadStreetData and buildGraph are each started at most once,
\* and all callers that arrive before the load has come to its end receive
\* the same promise, the load promise; no caller finds a load in progress.
C15_LoadsOnce ==
    pc = "serving" =>
        /\ loader.loadStarts <= 1
        /\ loader.buildStarts <= 1
        /\ ~loader.isLoading
        /\ \A i \in 1..Len(loader.callers) :
               loader.callers[i].early => loader.callers[i].promise = loader.loadPromise
        /\ Len(loader.callers) > 0 => loader.loadStarts = 1

\* the preload and three requests have called initializeData, a request
\* first, and the data was loaded and the graph built
C15_Witness ==
    /\ pc = "serving"
    /\ Len(loader.callers) = 4
    /\ loader.callers[1].who = "route"
    /\ loader.callers[1].early
    /\ loader.preloaded
    /\ loader.loadStarts = 1 /\ loader.buildStarts = 1
    /\ loader.hasGraph /\ Len(streetData) = 1
    /\ \A i \in 1..4 : loader.callers[i].stage \in {"routing", "done"}

\* ------------------------------------------------------------ loadStreetData
\* A Geom field is [text, type, lines]: text is "" (no geometry), "garbage"
\* (JSON.parse throws) or "json"; type is the GeoJSON type; lines holds the
\* coordinates, longitude first: a LineString has one line, a
\* MultiLineString several, a Point one line of one coordinate.
Geom(text, type, lines) == [text |-> text, type |-> type, lines |-> lines]

\* [lng, lat] to [lat, lng]
Swap(coord) == <<coord[2], coord[1]>>

MapSwap(s) == [k \in 1..Len(s) |-> Swap(s[k])]

\* Array.prototype.flat()
RECURSIVE Flat(_)
Flat(lines) == IF lines = <<>> THEN <<>> ELSE Head(lines) \o Flat(Tail(lines))

parseGeometry(geom) ==
    IF geom.text # "json" THEN <<>>
    ELSE IF geom.type = "LineString"
         THEN IF geom.lines = <<>> THEN <<>> ELSE MapSwap(geom.lines[1])
         ELSE IF geom.type = "MultiLineString" THEN MapSwap(Flat(geom.lines))
              ELSE <<>>

\* The segment made of a bikeways record (index counted from 0).  Every
\* record of the model carries a Segment length, so that the length is the
\* parsed field.
bikewaySegment(record, index, coords) ==
    [id |-> index, coordinates |-> coords, length |-> record.segmentLength,
     start |-> coords[1], end |-> coords[Len(coords)],
     scores |-> Scores(IF record.bikewayType = "Protected Bike Lanes" THEN 9
                       ELSE IF record.bikewayType = "Painted Lanes" THEN 6 ELSE 4,
                       5, 3, IF record.aaa = "YES" THEN 8 ELSE 4, 0)]

\* processBikeways that gives up at the first record without two parsed
\* coordinates.
RECURSIVE processBikewaysStopAtBad(_, _, _)
processBikewaysStopAtBad(records, i, segments) ==
    IF i > Len(records) THEN segments
    ELSE LET coords == parseGeometry(records[i].geom)
         IN  IF records[i].geom.text = "" \/ Len(coords) < 2
             THEN segments
             ELSE processBikewaysStopAtBad(records, i + 1,
                      Append(segments, bikewaySegment(records[i], i - 1, coords)))

\* bikewaysRecords.forEach, from the record of 1-based index i on
RECURSIVE processBikeways(_, _, _)
processBikeways(records, i, segments) ==
    IF i > Len(records) THEN segments
    ELSE LET coords == parseGeometry(records[i].geom)
         IN  IF records[i].geom.text = "" \/ Len(coords) < 2
             THEN processBikeways(records, i + 1, segments)
             ELSE processBikeways(records, i + 1,
                      Append(segments, bikewaySegment(records[i], i - 1, coords)))

conditionScore(condition) ==
    IF condition = "Very Good" THEN 9
    ELSE IF condition = "Good" THEN 7
    ELSE IF condition = "Fair" THEN 5
    ELSE IF condition = "Poor" THEN 3 ELSE 1

\* `${Math.round(lat * 1000)},${Math.round(lng * 1000)}`: cells of 0.001
\* degree (10000 units), a half rounded up.
roundKey3(coord) == <<(coord[1] + 5000) \div 10000, (coord[2] + 5000) \div 10000>>

\* sidewalkRecords.forEach: Map.set replaces the score a key already has.
RECURSIVE buildSidewalkMap(_, _, _)
buildSidewalkMap(records, i, sidewalkMap) ==
    IF i > Len(records) THEN sidewalkMap
    ELSE LET coords == parseGeometry(records[i].geom)
         IN  IF records[i].geom.text = "" \/ Len(coords) < 2
             THEN buildSidewalkMap(records, i + 1, sidewalkMap)
             ELSE LET score == conditionScore(records[i].condition)
                      key1 == roundKey3(coords[1])
                      key2 == roundKey3(coords[Len(coords)])
                  IN  buildSidewalkMap(records, i + 1,
                          (key2 :> score) @@ (key1 :> score) @@ sidewalkMap)

\* "Apply sidewalk conditions to segments"
applySidewalk(segments, sidewalkMap) ==
    [k \in 1..Len(segments) |->
        LET seg == segments[k]
            key1 == roundKey3(seg.start)
            key2 == roundKey3(seg.end)
            infra1 == IF key1 \in DOMAIN sidewalkMap
                      THEN Max(seg.scores.infra, sidewalkMap[key1]) ELSE seg.scores.infra
            infra2 == IF key2 \in DOMAIN sidewalkMap
                      THEN Max(infra1, sidewalkMap[key2]) ELSE infra1
        IN  [seg EXCEPT !.scores.infra = infra2]]

\* `${Math.round(lat * 100)},${Math.round(lng * 100)}`: cells of 0.01 degree
gridKey(point) == <<(point[1] + 50000) \div 100000, (point[2] + 50000) \div 100000>>

\* lightingRecords.forEach: the Point records, by grid cell
RECURSIVE buildLightingGrid(_, _, _)
buildLightingGrid(records, i, lightingGrid) ==
    IF i > Len(records) THEN lightingGrid
    ELSE LET geom == records[i].geom
         IN  IF geom.text = "json" /\ geom.type = "Point" /\ geom.lines # <<>>
             THEN LET point == Swap(geom.lines[1][1])
                      key == gridKey(point)
                      cell == IF key \in DOMAIN lightingGrid
                              THEN lightingGrid[key] ELSE <<>>
                  IN  buildLightingGrid(records, i + 1,
                          (key :> Append(cell, point)) @@ lightingGrid)
             ELSE buildLightingGrid(records, i + 1, lightingGrid)

Abs(x) == IF x < 0 THEN 0 - x ELSE x

\* calculateDistance between points less than 400 m apart, squared, in
\* square centimetres.
calculateDistanceCm(coord1, coord2) ==
    LET dLat == (Abs(coord2[1] - coord1[1]) * MmPerLatUnit) \div 10
        dLng == (Abs(coord2[2] - coord1[2]) * MmPerLngUnit) \div 10
    IN  dLat * dLat + dLng * dLng

\* the 0.05 km of "dist < 0.05", squared, in square centimetres
LightRadius == 25000000

Min(a, b) == IF a < b THEN a ELSE b

\* "Count nearby lights for each segment using grid lookup"
applyLighting(segments, lightingGrid) ==
    [k \in 1..Len(segments) |->
        LET seg == segments[k]
            key == gridKey(seg.start)
            nearbyLights == IF key \in DOMAIN lightingGrid THEN lightingGrid[key] ELSE <<>>
            lightCount == Cardinality({j \in 1..Len(nearbyLights) :
                              calculateDistanceCm(seg.start, nearbyLights[j]) < LightRadius})
        IN  [seg EXCEPT !.scores.light = Min(10, 5 + lightCount)]]

loadStreetData(bikewaysRecords, sidewalkRecords, lightingRecords) ==
    applyLighting(
        applySidewalk(processBikeways(bikewaysRecords, 1, <<>>),
                      buildSidewalkMap(sidewalkRecords, 1, EmptyMap)),
        buildLightingGrid(lightingRecords, 1, EmptyMap))

\* Most records of the bikeways file and of the sidewalk file, and most
\* records of the lighting file.
MaxRecords == 2

MaxLights == 6

\* Coordinates of the files: QS and QE are the ends of a street, QS 110 m
\* south of a border between grid cells; QW1 and QW2 lie in the 0.001
\* degree cell of QS, QW3 and QW4 far from it; QLin, QLout and QLfar are
\* lighting poles 22 m south, 22 m north (across the border) and 99 m south
\* of QS.
QS == <<49000, 0>>
QE == <<49000, 3000>>
QM == <<49000, 1500>>
QW1 == <<48000, 500>>
QW2 == <<52000, -1000>>
QW3 == <<80000, 0>>
QW4 == <<90000, 0>>
QLin == <<47000, 0>>
QLout == <<51000, 0>>
QLfar == <<40000, 0>>

Bikeway(geom, bikewayType, aaa, segmentLength) ==
    [geom |-> geom, bikewayType |-> bikewayType, aaa |-> aaa,
     segmentLength |-> segmentLength]

BikewayPool ==
    { Bikeway(Geom("json", "LineString", <<<<Swap(QS), Swap(QM), Swap(QE)>>>>),
              "Painted Lanes", "YES", 220),
      Bikeway(Geom("json", "MultiLineString", <<<<Swap(QE), Swap(QM)>>, <<Swap(QW3)>>>>),
              "Protected Bike Lanes", "NO", 300),
      Bikeway(Geom("json", "LineString", <<<<Swap(QS)>>>>), "Local Street", "NO", 10),
      Bikeway(Geom("json", "Polygon", <<<<Swap(QS), Swap(QE), Swap(QS)>>>>),
              "Painted Lanes", "NO", 50),
      Bikeway(Geom("garbage", "", <<>>), "Painted Lanes", "YES", 70),
      Bikeway(Geom("", "", <<>>), "Local Street", "NO", 80) }

Sidewalk(geom, condition) == [geom |-> geom, condition |-> condition]

SidewalkPool ==
    { Sidewalk(Geom("json", "LineString", <<<<Swap(QW1), Swap(QW3)>>>>), "Very Good"),
      Sidewalk(Geom("json", "LineString", <<<<Swap(QW4), Swap(QW2)>>>>), "Poor"),
      Sidewalk(Geom("json", "LineString", <<<<Swap(QW3), Swap(QW4)>>>>), "Good"),
      Sidewalk(Geom("garbage", "", <<>>), "Very Good") }

Pole(geom) == [geom |-> geom]

LightingPool ==
    << Pole(Geom("json", "Point", <<<<Swap(QLin)>>>>)),
       Pole(Geom("json", "Point", <<<<Swap(QLout)>>>>)),
       Pole(Geom("json", "Point", <<<<Swap(QLfar)>>>>)),
       Pole(Geom("garbage", "", <<>>)) >>

\* The lighting files: the poles of the pool, each any number of times, in
\* the order of the pool.
LightingFiles ==
    { [k \in 1..Len(s) |-> LightingPool[s[k]]] :
        s \in {u \in SeqsUpTo(1..Len(LightingPool), MaxLights) :
                   \A k \in 1..(Len(u) - 1) : u[k] <= u[k + 1]} }

\* The three files: any bikeways file, with a sidewalk file or a lighting
\* file.
InitStreetData ==
    /\ pc = "load"
    /\ \E b \in SeqsUpTo(BikewayPool, MaxRecords) :
           \/ \E s \in SeqsUpTo(SidewalkPool, MaxRecords) :
                  probe = [bikeways |-> b, sidewalk |-> s, lighting |-> <<>>]
           \/ \E l \in LightingFiles :
                  probe = [bikeways |-> b, sidewalk |-> <<>>, lighting |-> l]
    /\ streetData = <<>>
    /\ graph = EmptyGraph
    /\ nodeMap = EmptyMap
    /\ QuietRoute
    /\ loader = NotLoaded

LoadStreetData ==
    /\ pc = "load"
    /\ streetData' = loadStreetData(probe.bikeways, probe.sidewalk, probe.lighting)
    /\ pc' = "loaded"
    /\ UNCHANGED <<probe, loader, routeArrays, graph, nodeMap, queryVars, searchVars,
                   profileVars, fastestPathNodes, safestPathNodes, fastestVia,
                   fastestDistances, fastestRouteCoords, safestRouteCoords, status>>

NextStreetData == LoadStreetData

SpecStreetData == InitStreetData /\ [][NextStreetData]_vars

\* the infra score a bikeways record starts with
InitialInfra(record) ==
    IF record.bikewayType = "Protected Bike Lanes" THEN 9
    ELSE IF record.bikewayType = "Painted Lanes" THEN 6 ELSE 4

\* the condition scores of the sidewalk records with an endpoint in the
\* rounding cell (3 decimals) of the start or of the end of seg
MatchedScores(seg, sidewalkRecords) ==
    {conditionScore(sidewalkRecords[i].condition) :
        i \in {j \in 1..Len(sidewalkRecords) :
                 LET coords == parseGeometry(sidewalkRecords[j].geom)
                 IN  /\ Len(coords) >= 2
                     /\ {roundKey3(coords[1]), roundKey3(coords[Len(coords)])}
                            \cap {roundKey3(seg.start), roundKey3(seg.end)} # {}}}

\* C17 as claimed: after condition enrichment every segment's infra is the
\* maximum of its initial infra and the condition scores of all condition
\* records that have an endpoint in the rounding cell of its start or end.
C17_InfraIsMaximum ==
    pc = "loaded" =>
        \A k \in 1..Len(streetData) :
            LET seg == streetData[k]
                all == {InitialInfra(probe.bikeways[seg.id + 1])}
                           \cup MatchedScores(seg, probe.sidewalk)
            IN  /\ seg.scores.infra \in all
                /\ \A x \in all : x <= seg.scores.infra

\* the poles of the lighting file within the radius of the start of seg
PolesInRadius(seg, lightingRecords) ==
    {j \in 1..Len(lightingRecords) :
        LET geom == lightingRecords[j].geom
        IN  /\ geom.text = "json" /\ geom.type = "Point"
            /\ calculateDistanceCm(seg.start, Swap(geom.lines[1][1])) < LightRadius}

\* C18 as claimed: after lighting enrichment every segment's light is
\* min(10, 5 + count), count being the number of lighting fixtures within
\* the radius of the segment's start, whichever grid cell they fall in.
C18_LightCountsRadius ==
    pc = "loaded" =>
        \A k \in 1..Len(streetData) :
            streetData[k].scores.light =
                Min(10, 5 + Cardinality(PolesInRadius(streetData[k], probe.lighting)))

\* the records of the bikeways file with at least two parsed coordinates
GoodRecords == {i \in 1..Len(probe.bikeways) : Len(parseGeometry(probe.bikeways[i].geom)) >= 2}

\* C19: a record whose geometry does not parse or has an unsupported type
\* gives the empty sequence, and the loader skips it and goes on: the
\* segments are those of the records with at least two parsed coordinates,
\* one each, in the order of the file.
C19_BadRecordsSkipped ==
    pc = "loaded" =>
        /\ \A i \in 1..Len(probe.bikeways) :
               (probe.bikeways[i].geom.text # "json"
                \/ probe.bikeways[i].geom.type \notin {"LineString", "MultiLineString"})
                   => parseGeometry(probe.bikeways[i].geom) = <<>>
        /\ Len(streetData) = Cardinality(GoodRecords)
        /\ \A k \in 1..Len(streetData) :
               /\ streetData[k].id + 1 \in GoodRecords
               /\ streetData[k].coordinates
                      = parseGeometry(probe.bikeways[streetData[k].id + 1].geom)
               /\ \A j \in 1..Len(streetData) : j < k => streetData[j].id < streetData[k].id

\* a file whose first record does not parse and whose second is a street
C19_Witness ==
    /\ pc = "loaded"
    /\ Len(probe.bikeways) = 2
    /\ probe.bikeways[1].geom.text = "garbage"
    /\ Len(streetData) = 1
    /\ streetData[1].id = 1
    /\ streetData[1].coordinates = <<QS, QM, QE>>

\* ----------------------------------------- the four functions, called twice
\* Longest list of segments of these runs.
MaxPureSegs == 3

\* The main loop of a path search, run to its end: the path returned.
RECURSIVE searchLoop(_, _, _, _, _, _, _, _)
searchLoop(dist, prev, viaEdge, unv, g, target, safest, ctx) ==
    LET it == loopIteration(dist, prev, viaEdge, unv, g, target, safest, ctx)
    IN  IF it.outcome = "loop"
        THEN searchLoop(it.distances, it.previous, it.via, it.unvisited, g, target,
                        safest, ctx)
        ELSE it.path

findFastestPath(g, startNode0, endNode0) ==
    searchLoop(initDistances(g, startNode0), initPrevious(g), [n \in DOMAIN g |-> NoEdge],
               DOMAIN g, g, endNode0, FALSE,
               [segs |-> <<>>, version |-> 0, isNight |-> FALSE, lightWeight |-> 0,
                crimeWeight |-> 0])

\* findSafestPath(graph, startNode, endNode, timeArg) of definition v, called
\* on day dayOfYear of the wall clock (definition 1 sets the hour on new Date()).
findSafestPath(g, segs, startNode0, endNode0, v, timeArg, dayOfYear) ==
    LET night == regimeIsNight(v, timeArg, dayOfYear)
    IN  searchLoop(initDistances(g, startNode0), initPrevious(g),
                   [n \in DOMAIN g |-> NoEdge], DOMAIN g, g, endNode0, TRUE,
                   [segs |-> segs, version |-> v, isNight |-> night,
                    lightWeight |-> weightProfile(night).lightWeight,
                    crimeWeight |-> weightProfile(night).crimeWeight])

\* The results of the four functions for the arguments in probe, called on
\* day dayOfYear.
CallAll(dayOfYear) ==
    LET s == findClosestNode(probe.start, graph)
        e == findClosestNode(probe.end, graph)
        fastest == findFastestPath(graph, s, e)
        safest == findSafestPath(graph, streetData, s, e, probe.version, probe.timeArg,
                                 dayOfYear)
    IN  [startNode |-> s, endNode |-> e, fastest |-> fastest, safest |-> safest,
         fastestCoords |-> pathToCoordinates(fastest, graph, streetData),
         safestCoords |-> pathToCoordinates(safest, graph, streetData)]

NoResults ==
    [startNode |-> NullNode, endNode |-> NullNode, fastest |-> <<>>, safest |-> <<>>,
     fastestCoords |-> <<>>, safestCoords |-> <<>>]

InitPure ==
    /\ pc = "pure"
    /\ streetData \in SeqsUpTo(SegPool, MaxPureSegs)
    /\ graph = buildGraph(streetData).graph
    /\ nodeMap = buildGraph(streetData).nodeMap
    /\ QuietRoute
    /\ loader = NotLoaded
    /\ \E sc \in {PA, PD}, v \in Versions, t \in RouteHours, d1, d2 \in DaysOfYear :
           /\ d1 <= d2
           /\ probe = [start |-> sc, end |-> PC, version |-> v, timeArg |-> t,
                       firstDay |-> d1, secondDay |-> d2,
                       first |-> NoResults, second |-> NoResults]

FirstCall ==
    /\ pc = "pure"
    /\ probe' = [probe EXCEPT !.first = CallAll(probe.firstDay)]
    /\ pc' = "calledOnce"
    /\ UNCHANGED <<loader, routeArrays, dataVars, queryVars, searchVars, profileVars,
                   fastestPathNodes, safestPathNodes, fastestVia, fastestDistances,
                   fastestRouteCoords, safestRouteCoords, status>>

SecondCall ==
    /\ pc = "calledOnce"
    /\ probe' = [probe EXCEPT !.second = CallAll(probe.secondDay)]
    /\ pc' = "calledTwice"
    /\ UNCHANGED <<loader, routeArrays, dataVars, queryVars, searchVars, profileVars,
                   fastestPathNodes, safestPathNodes, fastestVia, fastestDistances,
                   fastestRouteCoords, safestRouteCoords, status>>

NextPure == FirstCall \/ SecondCall

SpecPure == InitPure /\ [][NextPure]_vars

\* C20 as claimed: two calls of findClosestNode, findFastestPath,
\* findSafestPath and pathToCoordinates with the same graph, the same
\* coordinates and the same hour return the same results, whatever the
\* dates of the wall clock at the two calls.
C20_SameArgumentsSameResult ==
    pc = "calledTwice" => probe.first = probe.second

\* ------------------------------------------------ the paths returned (Spec)
\* the weight of a neighbor entry: its distance for findFastestPath, the
\* floored safety cost under the profile in force for findSafestPath
EdgeWeight(e, safest) ==
    IF safest
    THEN finalCost(edgeCost(version, isNight, lightWeight, crimeWeight, e.distance,
                            streetData[e.segment].scores))
    ELSE e.distance

MinOf(S) == CHOOSE x \in S : \A y \in S : x <= y

\* The least total weight of a walk to each node, Infinity where there is
\* none: every neighbor entry of the graph is relaxed, over and over, until
\* no total gets smaller.
RECURSIVE LeastTotals(_, _)
LeastTotals(d, safest) ==
    LET better ==
            [n \in DOMAIN graph |->
                MinOf({d[n]} \cup
                      {d[a] + EdgeWeight(graph[a].neighbors[k], safest) :
                          <<a, k>> \in {<<b, j>> \in (DOMAIN graph) \X (1..(2 * Len(streetData))) :
                                            /\ d[b] < Infinity
                                            /\ j <= Len(graph[b].neighbors)
                                            /\ graph[b].neighbors[j].node = n}})]
    IN  IF better = d THEN d ELSE LeastTotals(better, safest)

LeastTotal(safest) ==
    LeastTotals([n \in DOMAIN graph |-> IF n = startNode THEN 0 ELSE Infinity], safest)[endNode]

\* C21: for connected start and end nodes findFastestPath returns a path,
\* and its total distance (the tentative distance of the end node, see C2)
\* is the least total distance of all walks from start to end in the graph.
C21_FastestIsShortest ==
    (FastestReturned /\ Connected(startNode, endNode)) =>
        /\ fastestPathNodes # <<>>
        /\ fastestDistances[endNode] = LeastTotal(FALSE)
        /\ SumSeq([i \in 1..(Len(fastestPathNodes) - 1) |->
                      MinOf(ParallelDistances(fastestPathNodes[i], fastestPathNodes[i + 1]))])
               = LeastTotal(FALSE)

\* findFastestPath has returned a path of two hops although an edge joins
\* the start node and the end node
C21_Witness ==
    /\ pc = "callSafest"
    /\ Len(fastestPathNodes) = 3
    /\ ParallelDistances(startNode, endNode) # {}

\* findSafestPath has returned for the request in hand
SafestReturned ==
    /\ pc \in {"convert", "respond", "done"}
    /\ startNode # NullNode /\ endNode # NullNode

\* the floored safety costs of the parallel edges from a to b
ParallelCosts(a, b) ==
    {EdgeWeight(graph[a].neighbors[k], TRUE) :
        k \in {j \in 1..Len(graph[a].neighbors) : graph[a].neighbors[j].node = b}}

\* C22: for connected start and end nodes, in either regime and either
\* definition, findSafestPath returns a path whose sum of floored safety
\* costs max(0.1, cost) is the least of all walks from start to end.
C22_SafestIsCheapest ==
    (SafestReturned /\ Connected(startNode, endNode)) =>
        /\ safestPathNodes # <<>>
        /\ distances[endNode] = LeastTotal(TRUE)
        /\ SumSeq([i \in 1..(Len(safestPathNodes) - 1) |->
                      MinOf(ParallelCosts(safestPathNodes[i], safestPathNodes[i + 1]))])
               = LeastTotal(TRUE)

\* findSafestPath has returned another path than findFastestPath, by day
\* under definition 1
C22_Witness ==
    /\ pc = "convert"
    /\ version = 1 /\ ~isNight
    /\ Len(safestPathNodes) >= 2
    /\ safestPathNodes # fastestPathNodes

\* ------------------------------------- the searches on any weights and scores
\* Longest list of segments of these runs.
MaxOddSegs == 3

\* Segments with lengths and scores a bikeways file may carry but a street
\* does not have: a negative length, a length of zero on a segment whose
\* ends are one node, scores far out of 0..10.
OddPool ==
    { Segment(<<PA, PB>>, 0 - 50, Scores(0 - 100, 0, 1000, 0, 0)),
      Segment(<<PB, PC>>, 100, Scores(1000, 1000, 0, 1000, 0)),
      Segment(<<PA2, PM, PC>>, 30, Scores(4, 5, 3, 4, 0)),
      Segment(<<PC, PM, PC2>>, 0, Scores(0, 0, 0, 0, 1000)),
      Segment(<<PE, PD>>, 0 - 10, Scores(4, 5, 3, 4, 0)) }

InitSearch ==
    /\ streetData \in SeqsUpTo(OddPool, MaxOddSegs)
    /\ graph = EmptyGraph
    /\ nodeMap = EmptyMap
    /\ pc = "boot"
    /\ QuietRoute
    /\ loader = NotLoaded
    /\ probe = <<>>

SpecSearch == InitSearch /\ [][Next]_vars

\* a search is in its main loop
Searching == pc \in {"fastest", "safest"}

\* C23: findFastestPath and findSafestPath terminate whatever the weights
\* and scores: every iteration of the main loop returns, breaks, or removes
\* exactly one node from the unvisited set, so that the nodes removed and
\* the nodes unvisited always make up the nodes of the graph, each once; and
\* the predecessor walk of a returned path ends at the start node after at
\* most as many steps as there are nodes.
C23_LoopBounded ==
    /\ [](Searching =>
            /\ Len(finalized) + Cardinality(unvisited) = Cardinality(DOMAIN graph)
            /\ \A i \in 1..Len(finalized) : finalized[i] \notin unvisited
            /\ \A i, j \in 1..Len(finalized) : i # j => finalized[i] # finalized[j])
    /\ [](\A path \in {fastestPathNodes, safestPathNodes} :
            path # <<>> => (path[1] = startNode /\ Len(path) <= Cardinality(DOMAIN graph)))
    /\ [][Searching =>
            \/ pc' # pc
            \/ \E n \in unvisited : unvisited' = unvisited \ {n}]_vars

\* findSafestPath is in its loop, all nodes of a graph of three nodes but
\* one removed, over an edge of negative length
C23_Witness ==
    /\ pc = "safest"
    /\ Cardinality(DOMAIN graph) >= 3
    /\ Cardinality(unvisited) = 1
    /\ \E i \in 1..Len(streetData) : streetData[i].length < 0

\* path is a simple path of the graph from the start node to the end node
WellFormed(path) ==
    /\ path[1] = startNode
    /\ path[Len(path)] = endNode
    /\ \A i, j \in 1..Len(path) : i # j => path[i] # path[j]
    /\ \A i \in 1..(Len(path) - 1) : ParallelDistances(path[i], path[i + 1]) # {}

\* C24: every non-empty path returned by findFastestPath or findSafestPath
\* starts with the start node, ends with the end node, holds no node twice
\* and steps along edges of the graph; and an iteration of the main loop
\* leaves the tentative distance and the predecessor of every node that is
\* out of the unvisited set, the one it removes included, as they were.
C24_PathWellFormed ==
    /\ [](\A path \in {fastestPathNodes, safestPathNodes} : path # <<>> => WellFormed(path))
    /\ [][(Searching /\ pc' = pc) =>
            \A n \in (DOMAIN graph) \ unvisited' :
                distances'[n] = distances[n] /\ previous'[n] = previous[n]]_vars

\* findSafestPath has returned a path of three nodes on a graph with an
\* edge of negative length
C24_Witness ==
    /\ pc = "convert"
    /\ Len(safestPathNodes) = 3
    /\ Len(fastestPathNodes) >= 2
    /\ \E i \in 1..Len(streetData) : streetData[i].length < 0

\* ------------------------------------------------ pathToCoordinates (Spec)
\* the stored coordinates of the segment pathToCoordinates uses for hop i
\* of path (the first neighbor entry of path[i] that leads to path[i + 1])
HopSegment(path, i) ==
    LET nbrs == graph[path[i]].neighbors
    IN  streetData[nbrs[findNeighbor(nbrs, path[i + 1])].segment].coordinates

\* the same in the direction of the hop: turned round exactly when the last
\* stored point is nearer to path[i] than the first
HopTraversal(path, i) ==
    LET coords == HopSegment(path, i)
        origin == graph[path[i]].coords
    IN  IF calculateDistance(coords[Len(coords)], origin) < calculateDistance(coords[1], origin)
        THEN Reverse(coords) ELSE coords

\* hop 1 whole, then every later hop without its first point
RECURSIVE Joined(_, _)
Joined(path, i) ==
    IF i = 0 THEN <<>>
    ELSE IF i = 1 THEN HopTraversal(path, 1)
    ELSE Joined(path, i - 1) \o Tail(HopTraversal(path, i))

HopStructure(path, coords) ==
    LET k == Len(path) - 1
        n == SumSeq([i \in 1..k |-> Len(HopSegment(path, i))]) - (k - 1)
    IN  /\ \A i \in 1..k :
               /\ canonicalKey(HopTraversal(path, i)[1]) = canonicalKey(graph[path[i]].coords)
               /\ canonicalKey(HopTraversal(path, i)[Len(HopTraversal(path, i))])
                      = canonicalKey(graph[path[i + 1]].coords)
        /\ Len(coords) \in {n, n + 1}
        /\ SubSeq(coords, 1, n) = Joined(path, k)
        /\ Len(coords) = n + 1 => coords[n + 1] = graph[path[k + 1]].coords

\* C25: for a path of k >= 1 hops pathToCoordinates returns the hops'
\* segment coordinates, each in the direction of its hop (from the node of
\* the hop to the next, turned round exactly when the segment's last point
\* is the nearer to the node of the hop), the first point of every hop
\* after the first left out, that is (sum of the point counts) - (k - 1)
\* points, followed by at most one point, the coordinate of the final node.
C25_HopStructure ==
    pc = "respond" =>
        /\ Len(fastestPathNodes) >= 2 => HopStructure(fastestPathNodes, fastestRouteCoords)
        /\ Len(safestPathNodes) >= 2 => HopStructure(safestPathNodes, safestRouteCoords)

\* a converted path of two hops, the second along a segment of three points
\* against its stored direction
C25_Witness ==
    /\ pc = "respond"
    /\ Len(fastestPathNodes) = 3
    /\ Len(HopSegment(fastestPathNodes, 2)) = 3
    /\ HopTraversal(fastestPathNodes, 2) # HopSegment(fastestPathNodes, 2)

\* ------------------------------------------------------ isNightTime (SpecTime)
\* C26 as claimed: on every date getSunriseSunset returns a sunrise earlier
\* than its sunset, and isNightTime classifies noon (12:00) as day and
\* midnight (00:00) as night; so findSafestPath of definition 1 called for
\* hour 12 runs in the day regime.
C26_NoonIsDay ==
    pc = "timed" =>
        LET day == probe.input.dayOfYear
        IN  /\ getSunriseSunset(day).sunrise < getSunriseSunset(day).sunset
            /\ ~isNightTime(12, day)
            /\ isNightTime(0, day)
            /\ (probe.input.version = 1 /\ probe.hour = 12) => ~probe.isNight

\* ------------------------------------- pathToCoordinates and parallel edges
\* C27 as claimed: for every hop of the path returned by findFastestPath,
\* pathToCoordinates emits the coordinates of the segment whose distance the
\* pathfinder used for the hop, a minimum-distance edge between the two
\* nodes, whatever the order of the parallel segments in the segment list.
C27_HopOfUsedEdge ==
    (pc = "respond" /\ Len(fastestPathNodes) >= 2) =>
        \A i \in 1..(Len(fastestPathNodes) - 1) :
            LET nbrs == graph[fastestPathNodes[i]].neighbors
                found == nbrs[findNeighbor(nbrs, fastestPathNodes[i + 1])]
                used == fastestVia[fastestPathNodes[i + 1]]
            IN  /\ found.distance = used.distance
                /\ found.distance
                       = MinOf(ParallelDistances(fastestPathNodes[i], fastestPathNodes[i + 1]))
                /\ HopSegment(fastestPathNodes, i) = streetData[used.segment].coordinates

\* ------------------------------------------------ the two searches together
\* C28: findFastestPath returns the empty path exactly when findSafestPath
\* does, for either definition of findSafestPath and every time argument;
\* so an answer of /route with status 200 never has one empty and one
\* non-empty route.
C28_EmptyTogether ==
    /\ SafestReturned => (fastestPathNodes = <<>> <=> safestPathNodes = <<>>)
    /\ (pc = "done" /\ status = 200) =>
           (fastestRouteCoords = <<>> <=> safestRouteCoords = <<>>)

\* both searches returned the empty path in a graph of two components, and
\* the answer was 404
C28_Witness ==
    /\ pc = "done" /\ status = 404
    /\ startNode # NullNode /\ endNode # NullNode
    /\ fastestPathNodes = <<>> /\ safestPathNodes = <<>>
    /\ Cardinality(DOMAIN graph) >= 4

\* C29 as claimed: whenever /route answers with status 200, at least one of
\* fastestRoute and safestRoute is a non-empty polyline, also when the start
\* and the end coordinate snap to the same node of the graph.
C29_OkHasRoute ==
    (pc = "done" /\ status = 200) =>
        (Len(fastestRouteCoords) > 0 \/ Len(safestRouteCoords) > 0)

\* ------------------------------------------- initializeData after a failure
\* the promise caller i of initializeData received was rejected with the
\* stored error
RejectedWithStored(i) ==
    /\ loader.promises[loader.callers[i].promise] = "rejected"
    /\ loader.reasons[loader.callers[i].promise] = loader.errorMessage

\* C30: once a load has failed, loadError is never cleared and no call of
\* initializeData starts loadStreetData (or buildGraph) again; every call
\* is rejected with the stored error; /status reports loaded = false with
\* that error's message; and no answer of /status has loaded = true
\* together with loading = true or with an error.
C30_ErrorIsKept ==
    /\ [](pc = "serving" =>
            /\ loader.loadError =>
                   /\ loader.errorMessage # NoMessage
                   /\ ~(loader.hasStreetData /\ loader.hasGraph)
                   /\ \A i \in 1..Len(loader.callers) : RejectedWithStored(i)
            /\ probe # <<>> =>
                   /\ ~(probe.loaded /\ probe.loading)
                   /\ ~(probe.loaded /\ probe.error # NoMessage))
    /\ [][(pc = "serving" /\ loader.loadError) =>
            /\ loader'.loadError
            /\ loader'.errorMessage = loader.errorMessage
            /\ loader'.loadStarts = loader.loadStarts
            /\ loader'.buildStarts = loader.buildStarts
            /\ probe' # <<>> =>
                   probe' = probe \/ (~probe'.loaded /\ probe'.error = loader.errorMessage)]_vars

\* buildGraph threw in the load the preload started; a later request called
\* initializeData and went into its catch, and /status reported the error
C30_Witness ==
    /\ pc = "serving"
    /\ loader.loadError /\ loader.errorMessage = "buildGraph"
    /\ loader.loadStarts = 1
    /\ Len(loader.callers) >= 2
    /\ loader.callers[1].who = "preload"
    /\ ~loader.callers[2].early /\ loader.callers[2].stage = "failed"
    /\ probe # <<>> /\ probe.error = "buildGraph" /\ ~probe.loaded
====
